---- MODULE Spec2Model ----
(***************************************************************************)
(* State-machine model of the marketplace_settlement contract              *)
(* (atomic_swap.rs, settlement_core.rs, royalty_distributor.rs) and of the *)
(* NftCollection contract of collection_factory (collection.rs).           *)
(*                                                                         *)
(* Every operation of the source is a pure operator over a "world" record  *)
(* w (the persistent store plus the asset ledgers the transfer capability  *)
(* acts on) that returns [res, w]; an action applies one operation to the  *)
(* current world and commits the world it returns.  The source has no      *)
(* compensation code: what an operation wrote or transferred before it     *)
(* returned an error stays written and transferred.                        *)
(***************************************************************************)
EXTENDS Integers, Sequences, FiniteSets, TLC

VARIABLES
    now,            \* env.ledger().timestamp()
    swaps,          \* ATOMIC_SWAPS: Map<u64, AtomicSwap>, keyed by swap_id
    next_swap,      \* instance storage "next_swap" (absent reads as 1)
    royalty_configs,\* ROYALTY_CONFIGS: Map<RoyaltyKey, RoyaltyInfo>
    sales,          \* SaleTransactionStore: transaction id -> SaleTransaction
    next_sale,      \* SaleTransactionStore's id counter
    trades,         \* TradeTransactionStore: trade id -> TradeTransaction
    next_trade,     \* TradeTransactionStore's id counter
    bundles,        \* BundleTransactionStore: bundle id -> BundleTransaction
    next_bundle,    \* BundleTransactionStore's id counter
    fees,           \* FeeManager: platform fees accumulated in the payment asset
    admin_cfg,      \* instance storage "admin_cfg": None until initialize
    fee_config,     \* FeeManager: the fee configuration, None until initialize
    nft_owner,      \* NFT ledger of the NFT contract: token id -> owner
    balance,        \* token ledger of the payment contract: address -> amount
    custody,        \* history: per swap, net assets moved into custody for each leg
    inflight,       \* reentrancy guard markers: set of <<caller, operation>>
    stack,          \* calls suspended inside an asset transfer (innermost last)
    last,           \* the last call made and the result kind it returned
    ret,            \* the value the last call returned, None if it returned none
    collection      \* instance storage of one NftCollection contract (collection.rs)

vars == <<now, swaps, next_swap, royalty_configs, sales, next_sale, trades, next_trade, bundles, next_bundle, fees, admin_cfg, fee_config, nft_owner, balance, custody, inflight, stack, last, ret, collection>>

(***************************************************************************)
(* Bounds and input sets                                                   *)
(***************************************************************************)
MaxSwaps == 1       \* swaps (and sales) created in the one-swap specifications
MaxTime == 1        \* the ledger clock runs from 0 to MaxTime
Price == 1          \* the payment amount of every swap and sale
MaxDepth == 1       \* calls that may be suspended inside a transfer at once

Escrow == "escrow"  \* env.current_contract_address()
Sellers == {"alice"}
Buyers == {"bob"}
Callers == {"alice", "bob", "carol"}
Holders == Callers \cup {Escrow}
TokenIds == {7}
NftContract == "nftc"
TokenContract == "tokc"
NftAsset == [contract |-> NftContract, symbol |-> "NFT"]
PayAsset == [contract |-> TokenContract, symbol |-> "USDC"]
Assets == {NftAsset, PayAsset}

None == <<>>
Some(x) == <<x>>

Min(S) == CHOOSE x \in S : \A y \in S : x <= y

(***************************************************************************)
(* The world the operations act on.  refuse is an input of the call: the   *)
(* payment contract refuses the token transfers made during it.            *)
(***************************************************************************)
World(refuse) ==
    [now |-> now, swaps |-> swaps, next_swap |-> next_swap,
     royalty_configs |-> royalty_configs, sales |-> sales, next_sale |-> next_sale,
     trades |-> trades, next_trade |-> next_trade,
     bundles |-> bundles, next_bundle |-> next_bundle,
     fees |-> fees, admin_cfg |-> admin_cfg, fee_config |-> fee_config,
     nft_owner |-> nft_owner, balance |-> balance, paused |-> refuse,
     custody |-> custody, inflight |-> inflight, ret |-> None]

CustodyCap == Price

CustodyBounded(w) ==
    \A i \in DOMAIN w.custody :
        /\ w.custody[i].nft \in -CustodyCap..CustodyCap
        /\ w.custody[i].pay \in -CustodyCap..CustodyCap

Commit(w) ==
    /\ CustodyBounded(w)
    /\ swaps' = w.swaps
    /\ next_swap' = w.next_swap
    /\ royalty_configs' = w.royalty_configs
    /\ sales' = w.sales
    /\ next_sale' = w.next_sale
    /\ trades' = w.trades
    /\ next_trade' = w.next_trade
    /\ bundles' = w.bundles
    /\ next_bundle' = w.next_bundle
    /\ fees' = w.fees
    /\ admin_cfg' = w.admin_cfg
    /\ fee_config' = w.fee_config
    /\ nft_owner' = w.nft_owner
    /\ balance' = w.balance
    /\ custody' = w.custody
    /\ inflight' = w.inflight
    /\ ret' = w.ret
    /\ UNCHANGED <<now, collection>>

Ret(res, w) == [res |-> res, w |-> w]

(***************************************************************************)
(* Asset transfer capability (asset_utils): move or fail                   *)
(***************************************************************************)
transfer_nft(w, contract, from, to, token_id) ==
    IF /\ contract = NftContract
       /\ token_id \in DOMAIN w.nft_owner
       /\ w.nft_owner[token_id] = from
    THEN Ret("Ok", [w EXCEPT !.nft_owner[token_id] = to])
    ELSE Ret("TransferFailed", w)

transfer_tokens(w, contract, from, to, amount) ==
    IF /\ contract = TokenContract
       /\ ~w.paused
       /\ amount >= 0
       /\ w.balance[from] >= amount
    THEN Ret("Ok", [w EXCEPT !.balance =
                        [a \in DOMAIN w.balance |->
                            w.balance[a] - (IF a = from THEN amount ELSE 0)
                                         + (IF a = to THEN amount ELSE 0)]])
    ELSE Ret("TransferFailed", w)

transfer_to_escrow(w, from, asset, amount, is_nft) ==
    IF is_nft
    THEN transfer_nft(w, asset.contract, from, Escrow, amount)
    ELSE transfer_tokens(w, asset.contract, from, Escrow, amount)

transfer_from_escrow(w, to, asset, amount, is_nft) ==
    IF is_nft
    THEN transfer_nft(w, asset.contract, Escrow, to, amount)
    ELSE transfer_tokens(w, asset.contract, Escrow, to, amount)

(***************************************************************************)
(* History of custody: what went in and out for each leg of each swap      *)
(***************************************************************************)
NoCustody == [nft |-> 0, pay |-> 0]

CustodyMove(w, swap_id, is_nft, amount, sign) ==
    IF is_nft
    THEN [w EXCEPT !.custody[swap_id].nft = @ + sign]
    ELSE [w EXCEPT !.custody[swap_id].pay = @ + sign * amount]

(***************************************************************************)
(* Swap store                                                              *)
(***************************************************************************)
next_swap_id(w) ==
    [id |-> w.next_swap, w |-> [w EXCEPT !.next_swap = w.next_swap + 1]]

store_swap(w, swap) ==
    [w EXCEPT !.swaps = [i \in DOMAIN w.swaps \cup {swap.swap_id} |->
                            IF i = swap.swap_id THEN swap ELSE w.swaps[i]]]

SwapsOf(w, transaction_id) ==
    {i \in DOMAIN w.swaps : w.swaps[i].transaction_id = transaction_id}

get_swap_by_transaction(w, transaction_id) ==
    IF SwapsOf(w, transaction_id) = {}
    THEN [res |-> "NotFound"]
    ELSE [res |-> "Ok", swap |-> w.swaps[Min(SwapsOf(w, transaction_id))]]

(***************************************************************************)
(* initialize_swap                                                         *)
(***************************************************************************)
initialize_swap(w, transaction_id, seller, buyer, nft_address, token_id, payment_asset, payment_amount) ==
    LET n == next_swap_id(w)
        seller_escrow ==
            <<[transaction_id |-> transaction_id, holder |-> seller,
               asset |-> [contract |-> nft_address, symbol |-> "NFT"],
               amount |-> token_id, is_nft |-> TRUE,
               deposited_at |-> w.now, released_at |-> None]>>
        buyer_escrow ==
            <<[transaction_id |-> transaction_id, holder |-> buyer,
               asset |-> payment_asset,
               amount |-> payment_amount, is_nft |-> FALSE,
               deposited_at |-> w.now, released_at |-> None]>>
        atomic_swap ==
            [swap_id |-> n.id, transaction_id |-> transaction_id,
             seller_escrow |-> seller_escrow, buyer_escrow |-> buyer_escrow,
             state |-> "Pending", created_at |-> w.now, executed_at |-> None]
        w1 == [n.w EXCEPT !.custody =
                  [i \in DOMAIN n.w.custody \cup {n.id} |->
                      IF i = n.id THEN NoCustody ELSE n.w.custody[i]]]
    IN  [res |-> "Ok", w |-> store_swap(w1, atomic_swap), swap_id |-> n.id]

(***************************************************************************)
(* deposit_to_escrow and its helpers                                       *)
(***************************************************************************)
Matches(escrow, depositor, asset) ==
    {i \in DOMAIN escrow : escrow[i].holder = depositor
                           /\ escrow[i].asset.contract = asset.contract}

StampFirst(escrow, depositor, asset, timestamp) ==
    IF Matches(escrow, depositor, asset) = {}
    THEN escrow
    ELSE [escrow EXCEPT ![Min(Matches(escrow, depositor, asset))].deposited_at = timestamp]

\* a variant of update_escrow_holding that records the deposit as one more
\* holding of the matching side
update_escrow_holding_push(w, swap, depositor, asset) ==
    [swap EXCEPT
        !.seller_escrow = IF Matches(@, depositor, asset) = {} THEN @
                          ELSE Append(@, [@[Min(Matches(@, depositor, asset))] EXCEPT !.deposited_at = w.now]),
        !.buyer_escrow = IF Matches(@, depositor, asset) = {} THEN @
                         ELSE Append(@, [@[Min(Matches(@, depositor, asset))] EXCEPT !.deposited_at = w.now])]

update_escrow_holding(w, swap, depositor, asset) ==
    [swap EXCEPT
        !.seller_escrow = StampFirst(swap.seller_escrow, depositor, asset, w.now),
        !.buyer_escrow = StampFirst(swap.buyer_escrow, depositor, asset, w.now)]

FullyStamped(escrow) == \A i \in DOMAIN escrow : escrow[i].deposited_at > 0

update_swap_state(swap) ==
    LET seller_funded == FullyStamped(swap.seller_escrow)
        buyer_funded == FullyStamped(swap.buyer_escrow)
    IN  [swap EXCEPT !.state =
            IF seller_funded /\ ~buyer_funded THEN "SellerFunded"
            ELSE IF ~seller_funded /\ buyer_funded THEN "BuyerFunded"
            ELSE IF seller_funded /\ buyer_funded THEN "Ready"
            ELSE "Pending"]

IsDepositOf(escrow, depositor, asset) ==
    \E i \in DOMAIN escrow : escrow[i].holder = depositor /\ escrow[i].asset = asset

\* a variant of deposit_to_escrow that stamps and stores the holding before
\* it attempts the transfer
deposit_to_escrow_stamp_first(w, transaction_id, depositor, asset, amount, is_nft) ==
    LET found == get_swap_by_transaction(w, transaction_id)
    IN  IF found.res # "Ok" THEN Ret(found.res, w)
        ELSE
        LET swap == found.swap
            is_seller_deposit == IsDepositOf(swap.seller_escrow, depositor, asset)
            is_buyer_deposit == IsDepositOf(swap.buyer_escrow, depositor, asset)
            updated == update_swap_state(update_escrow_holding(w, swap, depositor, asset))
            t == transfer_to_escrow(store_swap(w, updated), depositor, asset, amount, is_nft)
        IN  IF ~is_seller_deposit /\ ~is_buyer_deposit THEN Ret("Unauthorized", w)
            ELSE IF t.res # "Ok" THEN t
            ELSE Ret("Ok", CustodyMove(t.w, swap.swap_id, is_nft, amount, 1))

deposit_to_escrow(w, transaction_id, depositor, asset, amount, is_nft) ==
    LET found == get_swap_by_transaction(w, transaction_id)
    IN  IF found.res # "Ok" THEN Ret(found.res, w)
        ELSE
        LET swap == found.swap
            is_seller_deposit == IsDepositOf(swap.seller_escrow, depositor, asset)
            is_buyer_deposit == IsDepositOf(swap.buyer_escrow, depositor, asset)
        IN  IF ~is_seller_deposit /\ ~is_buyer_deposit THEN Ret("Unauthorized", w)
            ELSE
            LET t == transfer_to_escrow(w, depositor, asset, amount, is_nft)
            IN  IF t.res # "Ok" THEN Ret(t.res, w)
                ELSE
                LET stamped == update_escrow_holding(t.w, swap, depositor, asset)
                    updated == update_swap_state(stamped)
                    w1 == CustodyMove(t.w, swap.swap_id, is_nft, amount, 1)
                IN  Ret("Ok", store_swap(w1, updated))

(***************************************************************************)
(* Reentrancy guard (security/reentrancy_guard.rs is not among the         *)
(* sources; modelled from the specification): a marker per                 *)
(* (caller, operation), set before the body runs and cleared when it       *)
(* returns; a call that finds its marker set returns Reentrant.            *)
(***************************************************************************)
GuardKey(caller, operation) == <<caller, operation>>

GuardHeld(w, caller, operation) == GuardKey(caller, operation) \in w.inflight

GuardAcquire(w, caller, operation) ==
    [w EXCEPT !.inflight = @ \cup {GuardKey(caller, operation)}]

GuardRelease(w, caller, operation) ==
    [w EXCEPT !.inflight = @ \ {GuardKey(caller, operation)}]

\* leaving the guarded closure: the marker is cleared whatever the result;
\* a call still inside its transfer keeps it
GuardExit(r, caller, operation) ==
    IF r.res = "InTransfer" THEN r
    ELSE [res |-> r.res, w |-> GuardRelease(r.w, caller, operation)]

(***************************************************************************)
(* perform_atomic_swap: the NFT holdings of the seller side go to the      *)
(* holder of the first buyer holding, then the payment holdings of the     *)
(* buyer side go to the holder of the first seller holding.  Each loop     *)
(* stops at the first failing transfer; earlier transfers stay done.       *)
(***************************************************************************)
RECURSIVE ReleaseAll(_, _, _, _, _, _)
ReleaseAll(w, swap_id, escrow, i, want_nft, to) ==
    IF i > Len(escrow) THEN Ret("Ok", w)
    ELSE IF escrow[i].is_nft # want_nft \/ to = None
    THEN ReleaseAll(w, swap_id, escrow, i + 1, want_nft, to)
    ELSE
    LET h == escrow[i]
        t == transfer_from_escrow(w, to[1], h.asset, h.amount, h.is_nft)
    IN  IF t.res # "Ok" THEN Ret(t.res, w)
        ELSE ReleaseAll(CustodyMove(t.w, swap_id, h.is_nft, h.amount, -1),
                        swap_id, escrow, i + 1, want_nft, to)

FirstHolder(escrow) == IF Len(escrow) = 0 THEN None ELSE Some(escrow[1].holder)

perform_nft_leg(w, swap) ==
    ReleaseAll(w, swap.swap_id, swap.seller_escrow, 1, TRUE, FirstHolder(swap.buyer_escrow))

perform_payment_leg(w, swap) ==
    ReleaseAll(w, swap.swap_id, swap.buyer_escrow, 1, FALSE, FirstHolder(swap.seller_escrow))

perform_atomic_swap(w, swap) ==
    LET a == perform_nft_leg(w, swap)
    IN  IF a.res # "Ok" THEN a ELSE perform_payment_leg(a.w, swap)

(***************************************************************************)
(* refund_escrow_holdings: every holding of the seller side, then every    *)
(* holding of the buyer side, back to its holder.                          *)
(***************************************************************************)
RECURSIVE RefundAll(_, _, _, _)
RefundAll(w, swap_id, escrow, i) ==
    IF i > Len(escrow) THEN Ret("Ok", w)
    ELSE
    LET h == escrow[i]
        t == transfer_from_escrow(w, h.holder, h.asset, h.amount, h.is_nft)
    IN  IF t.res # "Ok" THEN Ret(t.res, w)
        ELSE RefundAll(CustodyMove(t.w, swap_id, h.is_nft, h.amount, -1),
                       swap_id, escrow, i + 1)

refund_escrow_holdings(w, swap) ==
    LET a == RefundAll(w, swap.swap_id, swap.seller_escrow, 1)
    IN  IF a.res # "Ok" THEN a ELSE RefundAll(a.w, swap.swap_id, swap.buyer_escrow, 1)

(***************************************************************************)
(* execute_swap, in the two halves a callback from the NFT transfer can    *)
(* separate: up to and including the NFT leg, and from the payment leg on. *)
(***************************************************************************)
nft_leg_done(a, swap) ==
    IF a.res # "Ok" THEN [res |-> a.res, w |-> a.w]
    ELSE [res |-> "InTransfer", w |-> a.w, swap |-> swap]

\* a variant of execute_swap_body_enter that turns away Pending swaps only
execute_swap_body_enter_pending_only(w, transaction_id) ==
    LET found == get_swap_by_transaction(w, transaction_id)
    IN  IF found.res # "Ok" THEN [res |-> found.res, w |-> w]
        ELSE IF found.swap.state = "Pending" THEN [res |-> "InvalidState", w |-> w]
        ELSE nft_leg_done(perform_nft_leg(w, found.swap), found.swap)

execute_swap_body_enter(w, transaction_id) ==
    LET found == get_swap_by_transaction(w, transaction_id)
    IN  IF found.res # "Ok" THEN [res |-> found.res, w |-> w]
        ELSE IF found.swap.state # "Ready" THEN [res |-> "InvalidState", w |-> w]
        ELSE nft_leg_done(perform_nft_leg(w, found.swap), found.swap)

payment_leg_done(b, swap, timestamp) ==
    IF b.res # "Ok" THEN b
    ELSE Ret("Ok", store_swap(b.w, [swap EXCEPT !.state = "Executed",
                                               !.executed_at = Some(timestamp)]))

execute_swap_body_exit(w, swap) ==
    payment_leg_done(perform_payment_leg(w, swap), swap, w.now)

\* a variant of execute_swap_enter that sets the marker without looking at it
execute_swap_enter_unguarded(w, transaction_id, executor) ==
    GuardExit(execute_swap_body_enter(GuardAcquire(w, executor, "execute_swap"), transaction_id),
              executor, "execute_swap")

execute_swap_enter(w, transaction_id, executor) ==
    IF GuardHeld(w, executor, "execute_swap") THEN [res |-> "Reentrant", w |-> w]
    ELSE GuardExit(execute_swap_body_enter(GuardAcquire(w, executor, "execute_swap"), transaction_id),
                   executor, "execute_swap")

execute_swap_exit(w, swap, executor) ==
    GuardExit(execute_swap_body_exit(w, swap), executor, "execute_swap")

execute_swap_resume(r, executor) ==
    IF r.res # "InTransfer" THEN Ret(r.res, r.w)
    ELSE execute_swap_exit(r.w, r.swap, executor)

execute_swap(w, transaction_id, executor) ==
    execute_swap_resume(execute_swap_enter(w, transaction_id, executor), executor)

(***************************************************************************)
(* cancel_swap and emergency_withdraw                                      *)
(***************************************************************************)
HoldsIn(escrow, who) == \E i \in DOMAIN escrow : escrow[i].holder = who

cancel_swap(w, transaction_id, canceller) ==
    LET found == get_swap_by_transaction(w, transaction_id)
    IN  IF found.res # "Ok" THEN Ret(found.res, w)
        ELSE
        LET swap == found.swap
            is_authorized == HoldsIn(swap.seller_escrow, canceller)
                             \/ HoldsIn(swap.buyer_escrow, canceller)
        IN  IF ~is_authorized THEN Ret("Unauthorized", w)
            ELSE
            LET r == refund_escrow_holdings(w, swap)
            IN  IF r.res # "Ok" THEN r
                ELSE Ret("Ok", store_swap(r.w, [swap EXCEPT !.state = "Failed"]))

emergency_withdraw(w, transaction_id, admin) ==
    LET found == get_swap_by_transaction(w, transaction_id)
    IN  IF found.res # "Ok" THEN Ret(found.res, w)
        ELSE refund_escrow_holdings(w, found.swap)

(***************************************************************************)
(* Royalty distributor                                                     *)
(***************************************************************************)
BpsDenominator == 10000
MaxRoyaltyBps == 5000
SellerBps == 9500
PlatformBps == 500

\* math_utils::calculate_percentage: amount * bps / 10000, integer division
calculate_percentage(amount, bps) == (amount * bps) \div BpsDenominator

EmptyMap == [k \in {} |-> k]

MapSet(m, k, v) == [x \in DOMAIN m \cup {k} |-> IF x = k THEN v ELSE m[x]]

\* the key is built from neither argument: every NFT gets the same, empty, key
make_royalty_key(nft_contract, token_id) == <<>>

store_royalty_info(w, royalty_info) ==
    [w EXCEPT !.royalty_configs =
        MapSet(@, make_royalty_key(royalty_info.nft_contract, royalty_info.token_id), royalty_info)]

get_royalty_info(w, nft_contract, token_id) ==
    LET key == make_royalty_key(nft_contract, token_id)
    IN  IF key \in DOMAIN w.royalty_configs
        THEN [res |-> "Ok", info |-> w.royalty_configs[key]]
        ELSE [res |-> "NotFound"]

set_royalty_info(w, nft_contract, token_id, creator, royalty_percentage, setter) ==
    IF royalty_percentage > MaxRoyaltyBps THEN Ret("InvalidRoyaltyPercentage", w)
    ELSE Ret("Ok", store_royalty_info(w,
            [nft_contract |-> nft_contract, token_id |-> token_id, creator |-> creator,
             royalty_percentage |-> royalty_percentage, last_updated |-> w.now]))

\* a variant of update_royalty_percentage without the ceiling
update_royalty_percentage_no_ceiling(w, nft_contract, token_id, new_percentage, updater) ==
    LET found == get_royalty_info(w, nft_contract, token_id)
    IN  IF found.res # "Ok" THEN Ret(found.res, w)
        ELSE IF found.info.creator # updater THEN Ret("Unauthorized", w)
        ELSE Ret("Ok", store_royalty_info(w,
                [found.info EXCEPT !.royalty_percentage = new_percentage,
                                   !.last_updated = w.now]))

update_royalty_percentage(w, nft_contract, token_id, new_percentage, updater) ==
    LET found == get_royalty_info(w, nft_contract, token_id)
    IN  IF found.res # "Ok" THEN Ret(found.res, w)
        ELSE IF found.info.creator # updater THEN Ret("Unauthorized", w)
        ELSE IF new_percentage > MaxRoyaltyBps THEN Ret("InvalidRoyaltyPercentage", w)
        ELSE Ret("Ok", store_royalty_info(w,
                [found.info EXCEPT !.royalty_percentage = new_percentage,
                                   !.last_updated = w.now]))

\* a variant of calculate_royalties that takes the royalty on the seller's share
calculate_royalties_on_seller_share(w, nft_contract, token_id, sale_price) ==
    LET found == get_royalty_info(w, nft_contract, token_id)
    IN  IF found.res # "Ok" THEN [res |-> found.res]
        ELSE
        LET royalty_info == found.info
            royalty_amount == calculate_percentage(calculate_percentage(sale_price, SellerBps),
                                                   royalty_info.royalty_percentage)
        IN  [res |-> "Ok",
             distribution |->
                [creator_address |-> royalty_info.creator,
                 creator_percentage |-> royalty_info.royalty_percentage,
                 seller_percentage |-> SellerBps,
                 platform_percentage |-> PlatformBps,
                 total_amount |-> sale_price,
                 amounts |-> MapSet(EmptyMap, royalty_info.creator, royalty_amount)]]

calculate_royalties(w, nft_contract, token_id, sale_price) ==
    LET found == get_royalty_info(w, nft_contract, token_id)
    IN  IF found.res # "Ok" THEN [res |-> found.res]
        ELSE
        LET royalty_info == found.info
            royalty_amount == calculate_percentage(sale_price, royalty_info.royalty_percentage)
        IN  [res |-> "Ok",
             distribution |->
                [creator_address |-> royalty_info.creator,
                 creator_percentage |-> royalty_info.royalty_percentage,
                 seller_percentage |-> SellerBps,
                 platform_percentage |-> PlatformBps,
                 total_amount |-> sale_price,
                 amounts |-> MapSet(EmptyMap, royalty_info.creator, royalty_amount)]]

\* Map<Address, i128> is iterated in key order
AddressOrder == <<"alice", "bob", "carol", "escrow", "GBBB", "GCCC">>

\* math_utils::safe_add, safe_sub, safe_mul, safe_div: the exact result;
\* the amounts of the model stay far from the width of i128
safe_add(a, b) == a + b

safe_sub(a, b) == a - b

safe_mul(a, b) == a * b

safe_div(a, b) == a \div b

RECURSIVE TotalFrom(_, _, _)
TotalFrom(amounts, i, total_distributed) ==
    IF i > Len(AddressOrder) THEN total_distributed
    ELSE IF AddressOrder[i] \notin DOMAIN amounts
    THEN TotalFrom(amounts, i + 1, total_distributed)
    ELSE TotalFrom(amounts, i + 1, safe_add(total_distributed, amounts[AddressOrder[i]]))

\* a variant of validate_royalty_distribution that accepts any total the
\* amounts do not exceed
validate_royalty_distribution_at_most(distribution) ==
    IF TotalFrom(distribution.amounts, 1, 0) > distribution.total_amount
    THEN [res |-> "InvalidAmount"]
    ELSE [res |-> "Ok"]

validate_royalty_distribution(distribution) ==
    IF TotalFrom(distribution.amounts, 1, 0) # distribution.total_amount
    THEN [res |-> "InvalidAmount"]
    ELSE [res |-> "Ok"]

\* the addresses calculate_complex_royalties builds from its fixed strings
SellerPlaceholder == "GBBB"
PlatformPlaceholder == "GCCC"
CreatorPlaceholder == "GDDD"

\* the loop of calculate_complex_royalties from NFT i on
RECURSIVE ComplexRoyaltiesFrom(_, _, _, _, _, _, _)
ComplexRoyaltiesFrom(w, nft_contracts, token_ids, sale_price, i, amounts, total_royalty_amount) ==
    IF i > Len(nft_contracts)
    THEN [res |-> "Ok", amounts |-> amounts, total_royalty_amount |-> total_royalty_amount]
    ELSE
    LET found == get_royalty_info(w, nft_contracts[i], token_ids[i])
    IN  IF found.res # "Ok" THEN [res |-> found.res]
        ELSE
        LET royalty_info == found.info
            individual_price == safe_div(sale_price, Len(nft_contracts))
            royalty_amount == calculate_percentage(individual_price, royalty_info.royalty_percentage)
            current_amount == IF royalty_info.creator \in DOMAIN amounts THEN amounts[royalty_info.creator] ELSE 0
            new_amount == safe_add(current_amount, royalty_amount)
        IN  ComplexRoyaltiesFrom(w, nft_contracts, token_ids, sale_price, i + 1,
                                 MapSet(amounts, royalty_info.creator, new_amount),
                                 safe_add(total_royalty_amount, royalty_amount))

\* a variant of calculate_complex_royalties that gives the seller the whole
\* remainder and the platform its share on top
calculate_complex_royalties_seller_keeps_all(w, nft_contracts, token_ids, sale_price) ==
    IF Len(nft_contracts) # Len(token_ids) THEN [res |-> "InvalidAmount"]
    ELSE
    LET looped == ComplexRoyaltiesFrom(w, nft_contracts, token_ids, sale_price, 1, EmptyMap, 0)
    IN  IF looped.res # "Ok" THEN [res |-> looped.res]
        ELSE
        LET seller_amount == safe_sub(sale_price, looped.total_royalty_amount)
            platform_amount == calculate_percentage(seller_amount, 500)
        IN  [res |-> "Ok",
             distribution |->
                [creator_address |-> CreatorPlaceholder,
                 creator_percentage |-> 0,
                 seller_percentage |-> SellerBps,
                 platform_percentage |-> PlatformBps,
                 total_amount |-> sale_price,
                 amounts |-> MapSet(MapSet(looped.amounts, SellerPlaceholder, seller_amount),
                                    PlatformPlaceholder, platform_amount)]]

calculate_complex_royalties(w, nft_contracts, token_ids, sale_price) ==
    IF Len(nft_contracts) # Len(token_ids) THEN [res |-> "InvalidAmount"]
    ELSE
    LET looped == ComplexRoyaltiesFrom(w, nft_contracts, token_ids, sale_price, 1, EmptyMap, 0)
    IN  IF looped.res # "Ok" THEN [res |-> looped.res]
        ELSE
        LET seller_amount == safe_sub(sale_price, looped.total_royalty_amount)
            platform_amount == calculate_percentage(seller_amount, 500)
            final_seller_amount == safe_sub(seller_amount, platform_amount)
        IN  [res |-> "Ok",
             distribution |->
                [creator_address |-> CreatorPlaceholder,
                 creator_percentage |-> 0,
                 seller_percentage |-> SellerBps,
                 platform_percentage |-> PlatformBps,
                 total_amount |-> sale_price,
                 amounts |-> MapSet(MapSet(looped.amounts, SellerPlaceholder, final_seller_amount),
                                    PlatformPlaceholder, platform_amount)]]

\* a variant of calculate_minimum_price that adds the royalty to the net amount
calculate_minimum_price_markup(w, nft_contract, token_id, desired_net_amount) ==
    LET found == get_royalty_info(w, nft_contract, token_id)
    IN  IF found.res # "Ok" THEN [res |-> found.res]
        ELSE [res |-> "Ok",
              price |-> safe_div(safe_mul(desired_net_amount,
                                          safe_add(BpsDenominator, found.info.royalty_percentage)),
                                 BpsDenominator)]

calculate_minimum_price(w, nft_contract, token_id, desired_net_amount) ==
    LET found == get_royalty_info(w, nft_contract, token_id)
    IN  IF found.res # "Ok" THEN [res |-> found.res]
        ELSE
        LET royalty_decimal == found.info.royalty_percentage
            denominator == safe_sub(BpsDenominator, royalty_decimal)
        IN  [res |-> "Ok",
             price |-> safe_div(safe_mul(desired_net_amount, BpsDenominator), denominator)]

RECURSIVE DistributeFrom(_, _, _, _, _)
DistributeFrom(w, contract, amounts, i, success) ==
    IF i > Len(AddressOrder) THEN [w |-> w, distribution_success |-> success]
    ELSE IF AddressOrder[i] \notin DOMAIN amounts
    THEN DistributeFrom(w, contract, amounts, i + 1, success)
    ELSE
    LET t == transfer_tokens(w, contract, Escrow, AddressOrder[i], amounts[AddressOrder[i]])
    IN  IF t.res = "Ok" THEN DistributeFrom(t.w, contract, amounts, i + 1, success)
        ELSE DistributeFrom(w, contract, amounts, i + 1, FALSE)

CreatorAmount(royalty_distribution) ==
    IF royalty_distribution.creator_address \in DOMAIN royalty_distribution.amounts
    THEN royalty_distribution.amounts[royalty_distribution.creator_address]
    ELSE 0

distribution_result(d, transaction_id, royalty_distribution) ==
    [res |-> "Ok", w |-> d.w, distribution_success |-> d.distribution_success,
     result |-> [transaction_id |-> transaction_id,
                 total_amount |-> royalty_distribution.total_amount,
                 creator_amount |-> CreatorAmount(royalty_distribution),
                 seller_amount |-> calculate_percentage(royalty_distribution.total_amount,
                                                        royalty_distribution.seller_percentage),
                 platform_amount |-> calculate_percentage(royalty_distribution.total_amount,
                                                          royalty_distribution.platform_percentage),
                 distribution_success |-> d.distribution_success]]

RECURSIVE DistributeUntilFailure(_, _, _, _, _)
DistributeUntilFailure(w, contract, amounts, i, success) ==
    IF i > Len(AddressOrder) THEN [w |-> w, distribution_success |-> success]
    ELSE IF AddressOrder[i] \notin DOMAIN amounts
    THEN DistributeUntilFailure(w, contract, amounts, i + 1, success)
    ELSE
    LET t == transfer_tokens(w, contract, Escrow, AddressOrder[i], amounts[AddressOrder[i]])
    IN  IF t.res = "Ok" THEN DistributeUntilFailure(t.w, contract, amounts, i + 1, success)
        ELSE [w |-> w, distribution_success |-> FALSE]

\* a variant of distribute_royalties that stops at the first failing transfer
distribute_royalties_until_failure(w, transaction_id, royalty_distribution, payment_asset) ==
    distribution_result(
        DistributeUntilFailure(w, payment_asset.contract, royalty_distribution.amounts, 1, TRUE),
        transaction_id, royalty_distribution)

distribute_royalties(w, transaction_id, royalty_distribution, payment_asset) ==
    distribution_result(
        DistributeFrom(w, payment_asset.contract, royalty_distribution.amounts, 1, TRUE),
        transaction_id, royalty_distribution)

(***************************************************************************)
(* Collaborators of the settlement core that are not among the sources     *)
(* (transaction store, fee manager, asset and time utilities), modelled    *)
(* from the specification.                                                 *)
(***************************************************************************)
MaxTransactionDuration == 2592000
PlatformFeeBps == 250
MinimumFee == 1000
MaximumFee == 1000000

SaleStoreNextId(w) == [id |-> w.next_sale, w |-> [w EXCEPT !.next_sale = w.next_sale + 1]]

SaleStorePut(w, sale) == [w EXCEPT !.sales = MapSet(@, sale.transaction_id, sale)]

SaleStoreGet(w, transaction_id) ==
    IF transaction_id \in DOMAIN w.sales
    THEN [res |-> "Ok", sale |-> w.sales[transaction_id]]
    ELSE [res |-> "NotFound"]

validate_transaction_timing(start, end, max_duration) == end - start <= max_duration

is_expired(expires_at, w) == w.now > expires_at

check_nft_ownership(w, nft_address, token_id, owner) ==
    /\ nft_address = NftContract
    /\ token_id \in DOMAIN w.nft_owner
    /\ w.nft_owner[token_id] = owner

calculate_fee(price) ==
    LET raw == calculate_percentage(price, PlatformFeeBps)
    IN  IF raw < MinimumFee THEN MinimumFee
        ELSE IF raw > MaximumFee THEN MaximumFee ELSE raw

collect_platform_fee(w, amount, asset, payer) == Ret("Ok", [w EXCEPT !.fees = @ + amount])

(***************************************************************************)
(* create_sale                                                             *)
(***************************************************************************)
\* a variant of create_sale_body whose sale expires at its creation time
create_sale_body_no_duration(w, seller, nft_address, token_id, price, currency, duration_seconds) ==
    IF ~validate_transaction_timing(w.now, w.now + duration_seconds, MaxTransactionDuration)
    THEN Ret("InvalidAmount", w)
    ELSE IF ~check_nft_ownership(w, nft_address, token_id, seller)
    THEN Ret("Unauthorized", w)
    ELSE
    LET royalty == calculate_royalties(w, nft_address, token_id, price)
    IN  IF royalty.res # "Ok" THEN Ret(royalty.res, w)
        ELSE
        LET n == SaleStoreNextId(w)
            sale == [transaction_id |-> n.id, seller |-> seller, buyer |-> None,
                     nft_address |-> nft_address, token_id |-> token_id, price |-> price,
                     currency |-> currency, state |-> "Pending", created_at |-> w.now,
                     expires_at |-> w.now,
                     royalty_info |-> royalty.distribution,
                     platform_fee |-> calculate_fee(price)]
            w1 == SaleStorePut(n.w, sale)
            r == initialize_swap(w1, n.id, seller, seller, nft_address, token_id, currency, price)
        IN  Ret(r.res, r.w)

create_sale_body(w, seller, nft_address, token_id, price, currency, duration_seconds) ==
    IF ~validate_transaction_timing(w.now, w.now + duration_seconds, MaxTransactionDuration)
    THEN Ret("InvalidAmount", w)
    ELSE IF ~check_nft_ownership(w, nft_address, token_id, seller)
    THEN Ret("Unauthorized", w)
    ELSE
    LET royalty == calculate_royalties(w, nft_address, token_id, price)
    IN  IF royalty.res # "Ok" THEN Ret(royalty.res, w)
        ELSE
        LET n == SaleStoreNextId(w)
            sale == [transaction_id |-> n.id, seller |-> seller, buyer |-> None,
                     nft_address |-> nft_address, token_id |-> token_id, price |-> price,
                     currency |-> currency, state |-> "Pending", created_at |-> w.now,
                     expires_at |-> w.now + duration_seconds,
                     royalty_info |-> royalty.distribution,
                     platform_fee |-> calculate_fee(price)]
            w1 == SaleStorePut(n.w, sale)
            \* the buyer is not known yet: the seller is passed in the buyer's place
            r == initialize_swap(w1, n.id, seller, seller, nft_address, token_id, currency, price)
        IN  Ret(r.res, r.w)

create_sale(w, seller, nft_address, token_id, price, currency, duration_seconds) ==
    IF GuardHeld(w, seller, "create_sale") THEN Ret("Reentrant", w)
    ELSE
    LET r == create_sale_body(GuardAcquire(w, seller, "create_sale"), seller, nft_address, token_id, price, currency, duration_seconds)
    IN  Ret(r.res, GuardRelease(r.w, seller, "create_sale"))

(***************************************************************************)
(* execute_sale, in the two halves a callback from the NFT transfer of the *)
(* swap can separate.                                                      *)
(***************************************************************************)
funded_sale_swap(r, sale) ==
    IF r.res = "InTransfer"
    THEN [res |-> "InTransfer", w |-> r.w, swap |-> r.swap, sale |-> sale]
    ELSE [res |-> r.res, w |-> r.w]

\* a variant of execute_sale_body_enter that does not look at the sale's state
execute_sale_body_enter_any_state(w, transaction_id, buyer, payment_amount) ==
    LET found == SaleStoreGet(w, transaction_id)
    IN  IF found.res # "Ok" THEN [res |-> found.res, w |-> w]
        ELSE IF is_expired(found.sale.expires_at, w) THEN [res |-> "Expired", w |-> w]
        ELSE IF payment_amount # found.sale.price THEN [res |-> "InvalidAmount", w |-> w]
        ELSE
        LET sale == [found.sale EXCEPT !.buyer = Some(buyer), !.state = "Funded"]
        IN  funded_sale_swap(execute_swap_enter(SaleStorePut(w, sale), transaction_id, buyer), sale)

\* a variant of execute_sale_body_enter that records the buyer before it
\* compares the payment with the price
execute_sale_body_enter_early_write(w, transaction_id, buyer, payment_amount) ==
    LET found == SaleStoreGet(w, transaction_id)
    IN  IF found.res # "Ok" THEN [res |-> found.res, w |-> w]
        ELSE IF found.sale.state # "Pending" THEN [res |-> "InvalidState", w |-> w]
        ELSE IF is_expired(found.sale.expires_at, w) THEN [res |-> "Expired", w |-> w]
        ELSE
        LET sale == [found.sale EXCEPT !.buyer = Some(buyer), !.state = "Funded"]
        IN  IF payment_amount # found.sale.price
            THEN [res |-> "InvalidAmount", w |-> SaleStorePut(w, [found.sale EXCEPT !.buyer = Some(buyer)])]
            ELSE funded_sale_swap(execute_swap_enter(SaleStorePut(w, sale), transaction_id, buyer), sale)

execute_sale_body_enter(w, transaction_id, buyer, payment_amount) ==
    LET found == SaleStoreGet(w, transaction_id)
    IN  IF found.res # "Ok" THEN [res |-> found.res, w |-> w]
        ELSE IF found.sale.state # "Pending" THEN [res |-> "InvalidState", w |-> w]
        ELSE IF is_expired(found.sale.expires_at, w) THEN [res |-> "Expired", w |-> w]
        ELSE IF payment_amount # found.sale.price THEN [res |-> "InvalidAmount", w |-> w]
        ELSE
        LET sale == [found.sale EXCEPT !.buyer = Some(buyer), !.state = "Funded"]
        IN  funded_sale_swap(execute_swap_enter(SaleStorePut(w, sale), transaction_id, buyer), sale)

sale_fee_collected(f, sale) ==
    IF f.res # "Ok" THEN f
    ELSE Ret("Ok", SaleStorePut(f.w, [sale EXCEPT !.state = "Executed"]))

sale_royalties_distributed(d, sale, buyer) ==
    sale_fee_collected(collect_platform_fee(d.w, sale.platform_fee, sale.currency, buyer), sale)

sale_swap_executed(x, sale, buyer) ==
    IF x.res # "Ok" THEN x
    ELSE sale_royalties_distributed(
             distribute_royalties(x.w, sale.transaction_id, sale.royalty_info, sale.currency),
             sale, buyer)

execute_sale_body_exit(w, swap, sale, buyer) ==
    sale_swap_executed(execute_swap_exit(w, swap, buyer), sale, buyer)

execute_sale_enter(w, transaction_id, buyer, payment_amount) ==
    IF GuardHeld(w, buyer, "execute_sale") THEN [res |-> "Reentrant", w |-> w]
    ELSE GuardExit(execute_sale_body_enter(GuardAcquire(w, buyer, "execute_sale"), transaction_id, buyer, payment_amount),
                   buyer, "execute_sale")

execute_sale_exit(w, swap, sale, buyer) ==
    GuardExit(execute_sale_body_exit(w, swap, sale, buyer), buyer, "execute_sale")

execute_sale_resume(r, buyer) ==
    IF r.res # "InTransfer" THEN Ret(r.res, r.w)
    ELSE execute_sale_exit(r.w, r.swap, r.sale, buyer)

execute_sale(w, transaction_id, buyer, payment_amount) ==
    execute_sale_resume(execute_sale_enter(w, transaction_id, buyer, payment_amount), buyer)

(***************************************************************************)
(* cancel_transaction                                                      *)
(***************************************************************************)
\* a variant of cancel_transaction_body that cancels a sale in any state
cancel_transaction_body_any_state(w, transaction_id, transaction_type, canceller) ==
    IF transaction_type # "sale" THEN Ret("InvalidAmount", w)
    ELSE
    LET found == SaleStoreGet(w, transaction_id)
    IN  IF found.res # "Ok" THEN Ret(found.res, w)
        ELSE IF found.sale.seller # canceller THEN Ret("Unauthorized", w)
        ELSE Ret("Ok", SaleStorePut(w, [found.sale EXCEPT !.state = "Cancelled"]))

cancel_transaction_body(w, transaction_id, transaction_type, canceller) ==
    IF transaction_type # "sale" THEN Ret("InvalidAmount", w)
    ELSE
    LET found == SaleStoreGet(w, transaction_id)
    IN  IF found.res # "Ok" THEN Ret(found.res, w)
        ELSE IF found.sale.seller # canceller THEN Ret("Unauthorized", w)
        ELSE IF found.sale.state # "Pending" THEN Ret("InvalidState", w)
        ELSE Ret("Ok", SaleStorePut(w, [found.sale EXCEPT !.state = "Cancelled"]))

\* a variant of cancel_transaction whose error paths leave without clearing the marker
cancel_transaction_leaky(w, transaction_id, transaction_type, canceller) ==
    IF GuardHeld(w, canceller, "cancel_transaction") THEN Ret("Reentrant", w)
    ELSE
    LET r == cancel_transaction_body(GuardAcquire(w, canceller, "cancel_transaction"), transaction_id, transaction_type, canceller)
    IN  IF r.res # "Ok" THEN r
        ELSE Ret(r.res, GuardRelease(r.w, canceller, "cancel_transaction"))

cancel_transaction(w, transaction_id, transaction_type, canceller) ==
    IF GuardHeld(w, canceller, "cancel_transaction") THEN Ret("Reentrant", w)
    ELSE
    LET r == cancel_transaction_body(GuardAcquire(w, canceller, "cancel_transaction"), transaction_id, transaction_type, canceller)
    IN  Ret(r.res, GuardRelease(r.w, canceller, "cancel_transaction"))

(***************************************************************************)
(* Trades and bundles.  TradeTransactionStore and BundleTransactionStore   *)
(* are collaborators like the sale store: next_id hands out the counter    *)
(* and advances it, put and update write the record under its id, get      *)
(* answers NotFound for an id without a record.                            *)
(***************************************************************************)
TradeStoreNextId(w) == [id |-> w.next_trade, w |-> [w EXCEPT !.next_trade = w.next_trade + 1]]

TradeStorePut(w, trade) == [w EXCEPT !.trades = MapSet(@, trade.trade_id, trade)]

TradeStoreGet(w, trade_id) ==
    IF trade_id \in DOMAIN w.trades
    THEN [res |-> "Ok", trade |-> w.trades[trade_id]]
    ELSE [res |-> "NotFound"]

BundleStoreNextId(w) == [id |-> w.next_bundle, w |-> [w EXCEPT !.next_bundle = w.next_bundle + 1]]

BundleStorePut(w, bundle) == [w EXCEPT !.bundles = MapSet(@, bundle.bundle_id, bundle)]

\* a variant of create_trade that takes the trade id before it looks at the
\* initiator's items
create_trade_body_id_first(w, initiator, counterparty, initiator_nfts, counterparty_nfts, duration_seconds) ==
    LET n == TradeStoreNextId(w)
        trade == [trade_id |-> n.id, initiator |-> initiator, counterparty |-> counterparty,
                  initiator_nfts |-> initiator_nfts, counterparty_nfts |-> counterparty_nfts,
                  state |-> "Pending", created_at |-> w.now,
                  expires_at |-> w.now + duration_seconds, platform_fee |-> 0]
    IN  IF initiator_nfts = <<>> THEN Ret("InvalidAmount", n.w)
        ELSE [res |-> "Ok", w |-> [TradeStorePut(n.w, trade) EXCEPT !.ret = Some(n.id)]]

create_trade_body(w, initiator, counterparty, initiator_nfts, counterparty_nfts, duration_seconds) ==
    IF initiator_nfts = <<>> THEN Ret("InvalidAmount", w)
    ELSE
    LET n == TradeStoreNextId(w)
        trade == [trade_id |-> n.id, initiator |-> initiator, counterparty |-> counterparty,
                  initiator_nfts |-> initiator_nfts, counterparty_nfts |-> counterparty_nfts,
                  state |-> "Pending", created_at |-> w.now,
                  expires_at |-> w.now + duration_seconds, platform_fee |-> 0]
    IN  [res |-> "Ok", w |-> [TradeStorePut(n.w, trade) EXCEPT !.ret = Some(n.id)]]

create_trade(w, initiator, counterparty, initiator_nfts, counterparty_nfts, duration_seconds) ==
    IF GuardHeld(w, initiator, "create_trade") THEN Ret("Reentrant", w)
    ELSE
    LET r == create_trade_body(GuardAcquire(w, initiator, "create_trade"), initiator, counterparty, initiator_nfts, counterparty_nfts, duration_seconds)
    IN  Ret(r.res, GuardRelease(r.w, initiator, "create_trade"))

\* a variant of accept_trade that accepts a trade in any state
accept_trade_body_any_state(w, trade_id, acceptor) ==
    LET found == TradeStoreGet(w, trade_id)
    IN  IF found.res # "Ok" THEN Ret(found.res, w)
        ELSE IF is_expired(found.trade.expires_at, w) THEN Ret("Expired", w)
        ELSE Ret("Ok", TradeStorePut(w, [found.trade EXCEPT !.counterparty = Some(acceptor), !.state = "Funded"]))

accept_trade_body(w, trade_id, acceptor) ==
    LET found == TradeStoreGet(w, trade_id)
    IN  IF found.res # "Ok" THEN Ret(found.res, w)
        ELSE IF found.trade.state # "Pending" THEN Ret("InvalidState", w)
        ELSE IF is_expired(found.trade.expires_at, w) THEN Ret("Expired", w)
        ELSE Ret("Ok", TradeStorePut(w, [found.trade EXCEPT !.counterparty = Some(acceptor), !.state = "Funded"]))

accept_trade(w, trade_id, acceptor) ==
    IF GuardHeld(w, acceptor, "accept_trade") THEN Ret("Reentrant", w)
    ELSE
    LET r == accept_trade_body(GuardAcquire(w, acceptor, "accept_trade"), trade_id, acceptor)
    IN  Ret(r.res, GuardRelease(r.w, acceptor, "accept_trade"))

execute_trade_body(w, trade_id, executor) ==
    LET found == TradeStoreGet(w, trade_id)
    IN  IF found.res # "Ok" THEN Ret(found.res, w)
        ELSE IF found.trade.state # "Funded" THEN Ret("InvalidState", w)
        ELSE Ret("Ok", TradeStorePut(w, [found.trade EXCEPT !.state = "Executed"]))

execute_trade(w, trade_id, executor) ==
    IF GuardHeld(w, executor, "execute_trade") THEN Ret("Reentrant", w)
    ELSE
    LET r == execute_trade_body(GuardAcquire(w, executor, "execute_trade"), trade_id, executor)
    IN  Ret(r.res, GuardRelease(r.w, executor, "execute_trade"))

create_bundle_body(w, seller, items, total_price, currency, duration_seconds) ==
    IF items = <<>> THEN Ret("InvalidAmount", w)
    ELSE
    LET n == BundleStoreNextId(w)
        bundle == [bundle_id |-> n.id, seller |-> seller, buyer |-> None, items |-> items,
                   total_price |-> total_price, currency |-> currency,
                   state |-> "Pending", created_at |-> w.now,
                   expires_at |-> w.now + duration_seconds, platform_fee |-> 0]
    IN  [res |-> "Ok", w |-> [BundleStorePut(n.w, bundle) EXCEPT !.ret = Some(n.id)]]

create_bundle(w, seller, items, total_price, currency, duration_seconds) ==
    IF GuardHeld(w, seller, "create_bundle") THEN Ret("Reentrant", w)
    ELSE
    LET r == create_bundle_body(GuardAcquire(w, seller, "create_bundle"), seller, items, total_price, currency, duration_seconds)
    IN  Ret(r.res, GuardRelease(r.w, seller, "create_bundle"))

(***************************************************************************)
(* Administration.  The fee manager is a collaborator: its configuration   *)
(* update is admin-gated, its withdrawal empties the accumulated fees.     *)
(***************************************************************************)
AdminConfig(admin) == [admin |-> admin, emergency_withdrawal_enabled |-> TRUE]

FeeConfig(platform_fee_bps) ==
    [platform_fee_bps |-> platform_fee_bps, minimum_fee |-> MinimumFee, maximum_fee |-> MaximumFee]

IsAdmin(w, admin) == w.admin_cfg # None /\ w.admin_cfg[1].admin = admin

FeeManager_update_fee_config(w, new_config, admin) ==
    IF ~IsAdmin(w, admin) THEN Ret("Unauthorized", w)
    ELSE Ret("Ok", [w EXCEPT !.fee_config = Some(new_config)])

FeeManager_withdraw_platform_fees(w, asset, recipient, admin) ==
    IF ~IsAdmin(w, admin) THEN Ret("Unauthorized", w)
    ELSE Ret("Ok", [w EXCEPT !.fees = 0])

\* the admin configuration is written first, whatever it held before; the
\* default fee configuration is then handed to the fee manager
initialize(w, admin) ==
    FeeManager_update_fee_config([w EXCEPT !.admin_cfg = Some(AdminConfig(admin))],
                                 FeeConfig(PlatformFeeBps), admin)

\* the engine's emergency_withdraw in the two halves a callback from the
\* refund of the NFT can separate: the seller side, then the buyer side
seller_side_refunded(a, swap) ==
    IF a.res # "Ok" THEN [res |-> a.res, w |-> a.w]
    ELSE [res |-> "InTransfer", w |-> a.w, swap |-> swap]

emergency_withdraw_enter(w, transaction_id, admin) ==
    LET found == get_swap_by_transaction(w, transaction_id)
    IN  IF found.res # "Ok" THEN [res |-> found.res, w |-> w]
        ELSE seller_side_refunded(RefundAll(w, found.swap.swap_id, found.swap.seller_escrow, 1), found.swap)

emergency_withdraw_exit(w, swap) == RefundAll(w, swap.swap_id, swap.buyer_escrow, 1)

\* a variant of MarketplaceSettlement_emergency_withdraw that does not
\* compare the supplied admin with the stored one
MarketplaceSettlement_emergency_withdraw_any_admin(w, transaction_id, admin) ==
    IF w.admin_cfg = None THEN Ret("Unauthorized", w)
    ELSE IF ~w.admin_cfg[1].emergency_withdrawal_enabled THEN Ret("InvalidState", w)
    ELSE emergency_withdraw(w, transaction_id, admin)

MarketplaceSettlement_emergency_withdraw(w, transaction_id, admin) ==
    IF w.admin_cfg = None THEN Ret("Unauthorized", w)
    ELSE IF w.admin_cfg[1].admin # admin THEN Ret("Unauthorized", w)
    ELSE IF ~w.admin_cfg[1].emergency_withdrawal_enabled THEN Ret("InvalidState", w)
    ELSE emergency_withdraw(w, transaction_id, admin)

MarketplaceSettlement_emergency_withdraw_enter(w, transaction_id, admin) ==
    IF w.admin_cfg = None THEN [res |-> "Unauthorized", w |-> w]
    ELSE IF w.admin_cfg[1].admin # admin THEN [res |-> "Unauthorized", w |-> w]
    ELSE IF ~w.admin_cfg[1].emergency_withdrawal_enabled THEN [res |-> "InvalidState", w |-> w]
    ELSE emergency_withdraw_enter(w, transaction_id, admin)

MarketplaceSettlement_update_fee_config(w, new_config, admin) ==
    IF w.admin_cfg = None THEN Ret("Unauthorized", w)
    ELSE IF w.admin_cfg[1].admin # admin THEN Ret("Unauthorized", w)
    ELSE FeeManager_update_fee_config(w, new_config, admin)

MarketplaceSettlement_withdraw_platform_fees(w, asset, recipient, admin) ==
    IF w.admin_cfg = None THEN Ret("Unauthorized", w)
    ELSE IF w.admin_cfg[1].admin # admin THEN Ret("Unauthorized", w)
    ELSE FeeManager_withdraw_platform_fees(w, asset, recipient, admin)

(***************************************************************************)
(* The NFT collection contract (collection_factory/src/collection.rs).     *)
(* Its operations are operators over the instance storage c, one field     *)
(* per DataKey; an absent key reads as None or is outside the map.  A      *)
(* panic (unwrap of an absent key, a failed require_auth,                  *)
(* AlreadyInitialized) aborts the invocation: the answer is "Panic" and    *)
(* the storage is the one before the call.  signer is the address that     *)
(* authorised the invocation.                                              *)
(***************************************************************************)
\* what 0 - 1 leaves in a u32: the build either aborts on it or wraps to
\* u32::MAX; the model marks the value and the claims check it never arises
Underflowed == -1

Decrement(n) == IF n >= 1 THEN n - 1 ELSE Underflowed

NoCollection ==
    [admin |-> None, config |-> None, total_supply |-> None, is_paused |-> None,
     royalty_info |-> None, minter |-> EmptyMap, token_metadata |-> EmptyMap,
     owner |-> EmptyMap, balance |-> EmptyMap]

MapRemove(m, k) == [x \in DOMAIN m \ {k} |-> m[x]]

UnwrapOr(option, default) == IF option = None THEN default ELSE option[1]

GetOr(m, k, default) == IF k \in DOMAIN m THEN m[k] ELSE default

CollectionConfig(max_supply, royalty_recipient) ==
    [max_supply |-> max_supply, royalty_percentage |-> 500, royalty_recipient |-> royalty_recipient]

init(c, admin, config) ==
    IF c.config # None THEN Ret("Panic", c)
    ELSE Ret("Ok", [c EXCEPT !.admin = Some(admin),
                             !.config = Some(config),
                             !.total_supply = Some(0),
                             !.is_paused = Some(FALSE),
                             !.royalty_info = Some([recipient |-> config.royalty_recipient,
                                                    percentage |-> config.royalty_percentage]),
                             !.minter = MapSet(@, admin, TRUE)])

is_minter(c, address) == GetOr(c.minter, address, FALSE)

balance_of(c, owner, token_id) == GetOr(c.balance, <<owner, token_id>>, 0)

owner_of(c, token_id) == IF token_id \in DOMAIN c.owner THEN Some(c.owner[token_id]) ELSE None

total_supply(c) == UnwrapOr(c.total_supply, 0)

\* a variant of mint that does not look at the supply limit
mint_no_limit(c, to, token_id, uri) ==
    IF c.admin = None THEN Ret("Panic", c)
    ELSE IF ~is_minter(c, c.admin[1]) THEN Ret("NotMinter", c)
    ELSE IF token_id \in DOMAIN c.token_metadata THEN Ret("TokenAlreadyExists", c)
    ELSE IF c.config = None THEN Ret("Panic", c)
    ELSE
    LET metadata == [token_id |-> token_id, uri |-> uri, creator |-> c.admin[1], created_at |-> now]
    IN  Ret("Ok", [c EXCEPT !.token_metadata = MapSet(@, token_id, metadata),
                            !.owner = MapSet(@, token_id, to),
                            !.balance = MapSet(@, <<to, token_id>>, balance_of(c, to, token_id) + 1),
                            !.total_supply = Some(total_supply(c) + 1)])

\* a variant of mint that leaves the balance of the recipient alone
mint_no_balance(c, to, token_id, uri) ==
    IF c.admin = None THEN Ret("Panic", c)
    ELSE IF ~is_minter(c, c.admin[1]) THEN Ret("NotMinter", c)
    ELSE IF token_id \in DOMAIN c.token_metadata THEN Ret("TokenAlreadyExists", c)
    ELSE IF c.config = None THEN Ret("Panic", c)
    ELSE IF c.config[1].max_supply # None /\ total_supply(c) >= c.config[1].max_supply[1]
    THEN Ret("SupplyLimitExceeded", c)
    ELSE
    LET metadata == [token_id |-> token_id, uri |-> uri, creator |-> c.admin[1], created_at |-> now]
    IN  Ret("Ok", [c EXCEPT !.token_metadata = MapSet(@, token_id, metadata),
                            !.owner = MapSet(@, token_id, to),
                            !.total_supply = Some(total_supply(c) + 1)])

mint(c, to, token_id, uri) ==
    IF c.admin = None THEN Ret("Panic", c)
    ELSE IF ~is_minter(c, c.admin[1]) THEN Ret("NotMinter", c)
    ELSE IF token_id \in DOMAIN c.token_metadata THEN Ret("TokenAlreadyExists", c)
    ELSE IF c.config = None THEN Ret("Panic", c)
    ELSE IF c.config[1].max_supply # None /\ total_supply(c) >= c.config[1].max_supply[1]
    THEN Ret("SupplyLimitExceeded", c)
    ELSE
    LET metadata == [token_id |-> token_id, uri |-> uri, creator |-> c.admin[1], created_at |-> now]
    IN  Ret("Ok", [c EXCEPT !.token_metadata = MapSet(@, token_id, metadata),
                            !.owner = MapSet(@, token_id, to),
                            !.balance = MapSet(@, <<to, token_id>>, balance_of(c, to, token_id) + 1),
                            !.total_supply = Some(total_supply(c) + 1)])

\* a variant of transfer that reads both balances before it writes either
transfer_read_first(c, from, to, token_id, signer) ==
    IF signer # from THEN Ret("Panic", c)
    ELSE IF UnwrapOr(c.is_paused, FALSE) THEN Ret("ContractPaused", c)
    ELSE IF token_id \notin DOMAIN c.owner THEN Ret("NotFound", c)
    ELSE IF c.owner[token_id] # from THEN Ret("NotAuthorized", c)
    ELSE
    LET from_balance == balance_of(c, from, token_id)
        to_balance == balance_of(c, to, token_id)
        c1 == [c EXCEPT !.owner = MapSet(@, token_id, to),
                        !.balance = MapSet(@, <<from, token_id>>, Decrement(from_balance))]
    IN  Ret("Ok", [c1 EXCEPT !.balance = MapSet(@, <<to, token_id>>, to_balance + 1)])

transfer(c, from, to, token_id, signer) ==
    IF signer # from THEN Ret("Panic", c)
    ELSE IF UnwrapOr(c.is_paused, FALSE) THEN Ret("ContractPaused", c)
    ELSE IF token_id \notin DOMAIN c.owner THEN Ret("NotFound", c)
    ELSE IF c.owner[token_id] # from THEN Ret("NotAuthorized", c)
    ELSE
    LET from_balance == balance_of(c, from, token_id)
        c1 == [c EXCEPT !.owner = MapSet(@, token_id, to),
                        !.balance = MapSet(@, <<from, token_id>>, Decrement(from_balance))]
        to_balance == balance_of(c1, to, token_id)
    IN  Ret("Ok", [c1 EXCEPT !.balance = MapSet(@, <<to, token_id>>, to_balance + 1)])

burn(c, from, token_id, signer) ==
    IF signer # from THEN Ret("Panic", c)
    ELSE IF token_id \notin DOMAIN c.owner THEN Ret("NotFound", c)
    ELSE IF c.owner[token_id] # from THEN Ret("NotAuthorized", c)
    ELSE IF c.total_supply = None THEN Ret("Panic", c)
    ELSE Ret("Ok", [c EXCEPT !.owner = MapRemove(@, token_id),
                             !.token_metadata = MapRemove(@, token_id),
                             !.balance = MapSet(@, <<from, token_id>>, Decrement(balance_of(c, from, token_id))),
                             !.total_supply = Some(Decrement(c.total_supply[1]))])

set_pause(c, paused, signer) ==
    IF c.admin = None \/ signer # c.admin[1] THEN Ret("Panic", c)
    ELSE Ret("Ok", [c EXCEPT !.is_paused = Some(paused)])

set_minter(c, minter, flag, signer) ==
    IF c.admin = None \/ signer # c.admin[1] THEN Ret("Panic", c)
    ELSE Ret("Ok", [c EXCEPT !.minter = MapSet(@, minter, flag)])

(***************************************************************************)
(* Initial states                                                          *)
(***************************************************************************)
Call(op, res) == [op |-> op, res |-> res]

InitStore ==
    /\ now \in 0..MaxTime
    /\ swaps = <<>>
    /\ next_swap = 1
    /\ royalty_configs = EmptyMap
    /\ sales = <<>>
    /\ next_sale = 1
    /\ trades = <<>>
    /\ next_trade = 1
    /\ bundles = <<>>
    /\ next_bundle = 1
    /\ fees = 0
    /\ admin_cfg = None
    /\ fee_config = None
    /\ custody = <<>>
    /\ inflight = {}
    /\ stack = <<>>
    /\ last = Call("init", "Ok")
    /\ ret = None
    /\ collection = NoCollection

\* the swap engine on its own: alice owns the NFT, bob holds the tokens
Init ==
    /\ InitStore
    /\ nft_owner = [t \in TokenIds |-> "alice"]
    /\ balance = [a \in Holders |-> IF a = "bob" THEN 2 * Price ELSE 0]

\* the settlement core: the seller has tokens of her own as well
InitSale ==
    /\ InitStore
    /\ nft_owner = [t \in TokenIds |-> "alice"]
    /\ balance = [a \in Holders |-> IF a \in {"alice", "bob"} THEN Price ELSE 0]

(***************************************************************************)
(* Actions: one per operation, each the whole call                         *)
(***************************************************************************)
TxIds == 1..(MaxSwaps + 1)

Tick ==
    /\ stack = <<>>
    /\ now < MaxTime
    /\ now' = now + 1
    /\ last' = Call("tick", "Ok")
    /\ ret' = None
    /\ UNCHANGED <<swaps, next_swap, royalty_configs, sales, next_sale, trades, next_trade, bundles, next_bundle, fees, admin_cfg, fee_config, nft_owner, balance, custody, inflight, stack, collection>>

InitializeSwapCall(tx, seller, buyer, token_id) ==
    LET r == initialize_swap(World(FALSE), tx, seller, buyer, NftContract, token_id, PayAsset, Price)
    IN  /\ Commit(r.w)
        /\ last' = Call("initialize_swap", r.res)
        /\ UNCHANGED stack

InitializeSwap(limit) ==
    /\ next_swap <= limit
    /\ \E tx \in 1..limit, seller \in Sellers, buyer \in Buyers, token_id \in TokenIds :
          InitializeSwapCall(tx, seller, buyer, token_id)

DepositCall(tx, depositor, asset, amount, is_nft, refuse) ==
    LET r == deposit_to_escrow(World(refuse), tx, depositor, asset, amount, is_nft)
    IN  /\ Commit(r.w)
        /\ last' = Call("deposit_to_escrow", r.res)
        /\ UNCHANGED stack

\* only the token contract can refuse a transfer that is otherwise possible
DepositToEscrow(amounts) ==
    \E tx \in TxIds, depositor \in Callers, asset \in Assets, is_nft \in BOOLEAN :
        \E amount \in (IF is_nft THEN TokenIds ELSE amounts), refuse \in (IF is_nft THEN {FALSE} ELSE BOOLEAN) :
            DepositCall(tx, depositor, asset, amount, is_nft, refuse)

ExecuteSwapCall(tx, executor, refuse) ==
    LET r == execute_swap(World(refuse), tx, executor)
    IN  /\ Commit(r.w)
        /\ last' = Call("execute_swap", r.res)
        /\ UNCHANGED stack

ExecuteSwap == \E tx \in TxIds, executor \in Callers, refuse \in BOOLEAN : ExecuteSwapCall(tx, executor, refuse)

CancelSwapCall(tx, canceller, refuse) ==
    LET r == cancel_swap(World(refuse), tx, canceller)
    IN  /\ Commit(r.w)
        /\ last' = Call("cancel_swap", r.res)
        /\ UNCHANGED stack

CancelSwap == \E tx \in TxIds, canceller \in Callers, refuse \in BOOLEAN : CancelSwapCall(tx, canceller, refuse)

EmergencyWithdrawCall(tx, admin, refuse) ==
    LET r == emergency_withdraw(World(refuse), tx, admin)
    IN  /\ Commit(r.w)
        /\ last' = Call("emergency_withdraw", r.res)
        /\ UNCHANGED stack

EmergencyWithdraw == \E tx \in TxIds, admin \in Callers, refuse \in BOOLEAN : EmergencyWithdrawCall(tx, admin, refuse)

(***************************************************************************)
(* Specifications of the swap engine                                       *)
(***************************************************************************)
Next ==
    \/ Tick
    \/ InitializeSwap(MaxSwaps)
    \/ DepositToEscrow(0..Price)
    \/ ExecuteSwap
    \/ CancelSwap
    \/ EmergencyWithdraw

Spec == Init /\ [][Next]_vars

\* the same engine with one more swap, so that two swaps share the custody;
\* the ledger time is the one the behaviour starts with
NextPair ==
    \/ InitializeSwap(MaxSwaps + 1)
    \/ DepositToEscrow({Price})
    \/ ExecuteSwap
    \/ CancelSwap
    \/ EmergencyWithdraw

SpecPair == Init /\ [][NextPair]_vars

\* swaps that see nothing but deposits, each of the full amount of its leg
NextDeposit ==
    \/ Tick
    \/ InitializeSwap(MaxSwaps + 1)
    \/ DepositToEscrow({Price})

SpecDeposit == Init /\ [][NextDeposit]_vars

(***************************************************************************)
(* Actions of the settlement core                                          *)
(***************************************************************************)
RoyaltyInputs == {500, 5001}

SetRoyaltyInfo ==
    \E token_id \in TokenIds, pct \in RoyaltyInputs :
        LET r == set_royalty_info(World(FALSE), NftContract, token_id, "carol", pct, "carol")
        IN  /\ Commit(r.w)
            /\ last' = Call("set_royalty_info", r.res)
            /\ UNCHANGED stack

get_sale(w, transaction_id) == SaleStoreGet(w, transaction_id)

SaleSellers == {"alice", "bob"}

Durations == 0..MaxTime

CreateSaleCall(seller, token_id, duration_seconds) ==
    LET r == create_sale(World(FALSE), seller, NftContract, token_id, Price, PayAsset, duration_seconds)
    IN  /\ Commit(r.w)
        /\ last' = Call("create_sale", r.res)
        /\ UNCHANGED stack

CreateSale ==
    /\ next_sale <= MaxSwaps
    /\ next_swap <= MaxSwaps
    /\ \E seller \in SaleSellers, token_id \in TokenIds, duration_seconds \in Durations :
          CreateSaleCall(seller, token_id, duration_seconds)

ExecuteSaleCall(tx, buyer, payment_amount, refuse) ==
    LET r == execute_sale(World(refuse), tx, buyer, payment_amount)
    IN  /\ Commit(r.w)
        /\ last' = Call("execute_sale", r.res)
        /\ UNCHANGED stack

Payments == {Price, Price + 1}

ExecuteSale ==
    \E tx \in TxIds, buyer \in Callers, payment_amount \in Payments, refuse \in BOOLEAN :
        ExecuteSaleCall(tx, buyer, payment_amount, refuse)

TransactionTypes == {"sale", "trade"}

CancelTransactionCall(tx, transaction_type, canceller) ==
    LET r == cancel_transaction(World(FALSE), tx, transaction_type, canceller)
    IN  /\ Commit(r.w)
        /\ last' = Call("cancel_transaction", r.res)
        /\ UNCHANGED stack

CancelTransaction ==
    \E tx \in TxIds, transaction_type \in TransactionTypes, canceller \in Callers :
        CancelTransactionCall(tx, transaction_type, canceller)

NextSale ==
    \/ Tick
    \/ SetRoyaltyInfo
    \/ CreateSale
    \/ DepositToEscrow({Price})
    \/ ExecuteSale
    \/ CancelTransaction

SpecSale == InitSale /\ [][NextSale]_vars

(***************************************************************************)
(* The sale operations of the settlement contract alone: the contract has  *)
(* no operation that deposits into escrow.                                 *)
(***************************************************************************)
NextCore ==
    \/ Tick
    \/ SetRoyaltyInfo
    \/ CreateSale
    \/ ExecuteSale
    \/ CancelTransaction

SpecCore == InitSale /\ [][NextCore]_vars

(***************************************************************************)
(* Reentrancy: the contract an asset transfer calls may call back into the *)
(* settlement contract before the transfer returns.  A call that reaches   *)
(* the NFT transfer of its swap is suspended there (a frame on the stack   *)
(* holds its local copies of the records); calls made while it is          *)
(* suspended run against the store as it is; the suspended call then       *)
(* resumes with its local copies.                                          *)
(***************************************************************************)
Frame(op, caller, swap, sale) == [op |-> op, caller |-> caller, swap |-> swap, sale |-> sale]

Top == stack[Len(stack)]

Pop == SubSeq(stack, 1, Len(stack) - 1)

ExecuteSwapEnterCall(tx, executor) ==
    LET r == execute_swap_enter(World(FALSE), tx, executor)
    IN  /\ r.res = "InTransfer" => Len(stack) < MaxDepth
        /\ Commit(r.w)
        /\ last' = Call("execute_swap", r.res)
        /\ stack' = IF r.res = "InTransfer"
                    THEN Append(stack, Frame("execute_swap", executor, r.swap, None))
                    ELSE stack

ExecuteSwapEnter == \E tx \in TxIds, executor \in Callers : ExecuteSwapEnterCall(tx, executor)

ExecuteSwapExit ==
    /\ stack # <<>>
    /\ Top.op = "execute_swap"
    /\ \E refuse \in BOOLEAN :
          LET r == execute_swap_exit(World(refuse), Top.swap, Top.caller)
          IN  /\ Commit(r.w)
              /\ last' = Call("execute_swap", r.res)
              /\ stack' = Pop

ExecuteSaleEnterCall(tx, buyer, payment_amount) ==
    LET r == execute_sale_enter(World(FALSE), tx, buyer, payment_amount)
    IN  /\ r.res = "InTransfer" => Len(stack) < MaxDepth
        /\ Commit(r.w)
        /\ last' = Call("execute_sale", r.res)
        /\ stack' = IF r.res = "InTransfer"
                    THEN Append(stack, Frame("execute_sale", buyer, r.swap, Some(r.sale)))
                    ELSE stack

ExecuteSaleEnter ==
    \E tx \in TxIds, buyer \in Callers, payment_amount \in {Price, Price + 1} :
        ExecuteSaleEnterCall(tx, buyer, payment_amount)

ExecuteSaleExit ==
    /\ stack # <<>>
    /\ Top.op = "execute_sale"
    /\ \E refuse \in BOOLEAN :
          LET r == execute_sale_exit(World(refuse), Top.swap, Top.sale[1], Top.caller)
          IN  /\ Commit(r.w)
              /\ last' = Call("execute_sale", r.res)
              /\ stack' = Pop

NextReentrant ==
    \/ SetRoyaltyInfo
    \/ CreateSale
    \/ DepositToEscrow({Price})
    \/ CancelTransaction
    \/ ExecuteSwapEnter
    \/ ExecuteSwapExit
    \/ ExecuteSaleEnter
    \/ ExecuteSaleExit

SpecReentrant == InitSale /\ [][NextReentrant]_vars

(***************************************************************************)
(* Administration of the settlement contract, next to the sale it          *)
(* administers.  The emergency withdrawal is suspended inside the refund   *)
(* of the NFT like execute_swap is inside its NFT leg.                     *)
(***************************************************************************)
Admins == {"bob", "carol"}

FeeBpsInputs == {PlatformFeeBps, 2 * PlatformFeeBps}

InitializeCall(admin) ==
    LET r == initialize(World(FALSE), admin)
    IN  /\ Commit(r.w)
        /\ last' = Call("initialize", r.res)
        /\ UNCHANGED stack

Initialize == \E admin \in Admins : InitializeCall(admin)

UpdateFeeConfigCall(platform_fee_bps, admin) ==
    LET r == MarketplaceSettlement_update_fee_config(World(FALSE), FeeConfig(platform_fee_bps), admin)
    IN  /\ Commit(r.w)
        /\ last' = Call("update_fee_config", r.res)
        /\ UNCHANGED stack

UpdateFeeConfig ==
    \E platform_fee_bps \in FeeBpsInputs, admin \in Admins : UpdateFeeConfigCall(platform_fee_bps, admin)

WithdrawPlatformFeesCall(recipient, admin) ==
    LET r == MarketplaceSettlement_withdraw_platform_fees(World(FALSE), PayAsset, recipient, admin)
    IN  /\ Commit(r.w)
        /\ last' = Call("withdraw_platform_fees", r.res)
        /\ UNCHANGED stack

WithdrawPlatformFees ==
    \E recipient \in Admins, admin \in Admins : WithdrawPlatformFeesCall(recipient, admin)

SettlementEmergencyWithdrawEnterCall(tx, admin) ==
    LET r == MarketplaceSettlement_emergency_withdraw_enter(World(FALSE), tx, admin)
    IN  /\ r.res = "InTransfer" => Len(stack) < MaxDepth
        /\ Commit(r.w)
        /\ last' = Call("settlement_emergency_withdraw", r.res)
        /\ stack' = IF r.res = "InTransfer"
                    THEN Append(stack, Frame("settlement_emergency_withdraw", admin, r.swap, None))
                    ELSE stack

SettlementEmergencyWithdrawEnter ==
    \E tx \in TxIds, admin \in Admins : SettlementEmergencyWithdrawEnterCall(tx, admin)

SettlementEmergencyWithdrawExit ==
    /\ stack # <<>>
    /\ Top.op = "settlement_emergency_withdraw"
    /\ \E refuse \in BOOLEAN :
          LET r == emergency_withdraw_exit(World(refuse), Top.swap)
          IN  /\ Commit(r.w)
              /\ last' = Call("settlement_emergency_withdraw", r.res)
              /\ stack' = Pop

SettlementEmergencyWithdrawCall(tx, admin, refuse) ==
    LET r == MarketplaceSettlement_emergency_withdraw(World(refuse), tx, admin)
    IN  /\ Commit(r.w)
        /\ last' = Call("settlement_emergency_withdraw", r.res)
        /\ UNCHANGED stack

SettlementEmergencyWithdraw ==
    \E tx \in TxIds, admin \in Admins, refuse \in BOOLEAN : SettlementEmergencyWithdrawCall(tx, admin, refuse)

NextAdmin ==
    \/ Initialize
    \/ UpdateFeeConfig
    \/ WithdrawPlatformFees
    \/ SetRoyaltyInfo
    \/ CreateSale
    \/ DepositToEscrow({Price})
    \/ ExecuteSale
    \/ SettlementEmergencyWithdraw

SpecAdmin == InitSale /\ [][NextAdmin]_vars

\* the emergency withdrawal with the callbacks its NFT refund allows
NextAdminReentrant ==
    \/ Initialize
    \/ UpdateFeeConfig
    \/ InitializeSwap(MaxSwaps)
    \/ DepositToEscrow({Price})
    \/ SettlementEmergencyWithdrawEnter
    \/ SettlementEmergencyWithdrawExit

SpecAdminReentrant == Init /\ [][NextAdminReentrant]_vars

(***************************************************************************)
(* The royalty distributor on its own.  The calls that only compute leave  *)
(* what they return in ret.                                                *)
(***************************************************************************)
MaxNet == 20        \* the largest net amount a minimum price is asked for

RoyaltyTokens == {7, 8}

RoyaltyCreators == {"alice", "carol"}

RoyaltyRates == {0, 500, 3333, MaxRoyaltyBps, MaxRoyaltyBps + 1}

SalePrices == {0, Price, BpsDenominator}

NetAmounts == 0..MaxNet

SetRoyaltyInfoCall(token_id, creator, royalty_percentage, setter) ==
    LET r == set_royalty_info(World(FALSE), NftContract, token_id, creator, royalty_percentage, setter)
    IN  /\ Commit(r.w)
        /\ last' = Call("set_royalty_info", r.res)
        /\ UNCHANGED stack

SetRoyalty ==
    \E token_id \in RoyaltyTokens, creator \in RoyaltyCreators, royalty_percentage \in RoyaltyRates, setter \in Callers :
        SetRoyaltyInfoCall(token_id, creator, royalty_percentage, setter)

UpdateRoyaltyPercentageCall(token_id, new_percentage, updater) ==
    LET r == update_royalty_percentage(World(FALSE), NftContract, token_id, new_percentage, updater)
    IN  /\ Commit(r.w)
        /\ last' = Call("update_royalty_percentage", r.res)
        /\ UNCHANGED stack

UpdateRoyaltyPercentage ==
    \E token_id \in RoyaltyTokens, new_percentage \in RoyaltyRates, updater \in Callers :
        UpdateRoyaltyPercentageCall(token_id, new_percentage, updater)

CalculateRoyaltiesCall(token_id, sale_price) ==
    LET r == calculate_royalties(World(FALSE), NftContract, token_id, sale_price)
    IN  /\ Commit([World(FALSE) EXCEPT !.ret = IF r.res = "Ok" THEN Some(r.distribution) ELSE None])
        /\ last' = Call("calculate_royalties", r.res)
        /\ UNCHANGED stack

CalculateRoyalties ==
    \E token_id \in RoyaltyTokens, sale_price \in SalePrices : CalculateRoyaltiesCall(token_id, sale_price)

CalculateMinimumPriceCall(token_id, desired_net_amount) ==
    LET r == calculate_minimum_price(World(FALSE), NftContract, token_id, desired_net_amount)
    IN  /\ Commit([World(FALSE) EXCEPT !.ret = IF r.res = "Ok" THEN Some(r.price) ELSE None])
        /\ last' = Call("calculate_minimum_price", r.res)
        /\ UNCHANGED stack

CalculateMinimumPrice ==
    \E token_id \in RoyaltyTokens, desired_net_amount \in NetAmounts :
        CalculateMinimumPriceCall(token_id, desired_net_amount)

DistributeRoyaltiesCall(royalty_distribution, refuse) ==
    LET r == distribute_royalties(World(refuse), 1, royalty_distribution, PayAsset)
    IN  /\ Commit([r.w EXCEPT !.ret = Some(r.result)])
        /\ last' = Call("distribute_royalties", r.res)
        /\ UNCHANGED stack

\* the distributions calculate_royalties returns in the current state
Calculated ==
    {calculate_royalties(World(FALSE), NftContract, t, p).distribution :
        <<t, p>> \in {x \in RoyaltyTokens \X SalePrices :
                        calculate_royalties(World(FALSE), NftContract, x[1], x[2]).res = "Ok"}}

DistributeCalculated ==
    \E royalty_distribution \in Calculated, refuse \in BOOLEAN :
        DistributeRoyaltiesCall(royalty_distribution, refuse)

NextRoyalty ==
    \/ SetRoyalty
    \/ UpdateRoyaltyPercentage
    \/ CalculateRoyalties
    \/ CalculateMinimumPrice
    \/ DistributeCalculated

SpecRoyalty == Init /\ [][NextRoyalty]_vars

\* distributions of any shape, paid from tokens the contract holds
RoyaltyRecipients == {"alice", "carol"}

AmountMaps == UNION {[S -> 0..(2 * Price)] : S \in SUBSET RoyaltyRecipients}

Totals == 0..(2 * Price) \cup {BpsDenominator}

Distributions ==
    {[creator_address |-> "carol", creator_percentage |-> 500,
      seller_percentage |-> SellerBps, platform_percentage |-> PlatformBps,
      total_amount |-> t, amounts |-> m] : t \in Totals, m \in AmountMaps}

ValidateRoyaltyDistributionCall(distribution) ==
    LET r == validate_royalty_distribution(distribution)
    IN  /\ Commit(World(FALSE))
        /\ last' = Call("validate_royalty_distribution", r.res)
        /\ UNCHANGED stack

ValidateRoyaltyDistribution ==
    \E distribution \in Distributions : ValidateRoyaltyDistributionCall(distribution)

DistributeRoyalties ==
    \E royalty_distribution \in Distributions, refuse \in BOOLEAN :
        DistributeRoyaltiesCall(royalty_distribution, refuse)

InitDistribution ==
    /\ InitStore
    /\ nft_owner = [t \in TokenIds |-> "alice"]
    /\ balance = [a \in Holders |-> IF a = Escrow THEN 2 * Price ELSE 0]

NextDistribution ==
    \/ ValidateRoyaltyDistribution
    \/ DistributeRoyalties

SpecDistribution == InitDistribution /\ [][NextDistribution]_vars

(***************************************************************************)
(* A depositor that deposits again: two deposit_to_escrow calls in a row   *)
(* for the same swap, depositor and asset                                  *)
(***************************************************************************)
deposit_to_escrow_again(first, transaction_id, depositor, asset, amount, is_nft) ==
    IF first.res # "Ok" THEN first
    ELSE deposit_to_escrow(first.w, transaction_id, depositor, asset, amount, is_nft)

DepositTwiceCall(tx, depositor, asset, first_amount, second_amount, is_nft) ==
    LET first == deposit_to_escrow(World(FALSE), tx, depositor, asset, first_amount, is_nft)
        r == deposit_to_escrow_again(first, tx, depositor, asset, second_amount, is_nft)
    IN  /\ first.res = "Ok"
        /\ Commit(r.w)
        /\ last' = Call("deposit_to_escrow_twice", r.res)
        /\ UNCHANGED stack

DepositTwice ==
    \E tx \in TxIds, depositor \in Callers, asset \in Assets, is_nft \in BOOLEAN :
        \E first_amount, second_amount \in (IF is_nft THEN TokenIds ELSE 0..Price) :
            DepositTwiceCall(tx, depositor, asset, first_amount, second_amount, is_nft)

NextRedeposit ==
    \/ Tick
    \/ InitializeSwap(MaxSwaps + 1)
    \/ DepositToEscrow(0..Price)
    \/ DepositTwice

SpecRedeposit == Init /\ [][NextRedeposit]_vars

(***************************************************************************)
(* Actions and specification of trades and bundles                         *)
(***************************************************************************)
TradeIds == 1..(MaxSwaps + 1)

TradeParties == {"alice", "bob"}

ItemLists == {<<>>, <<7>>}

TradeDurations == {0, MaxTime}

CreateTradeCall(initiator, initiator_nfts, counterparty_nfts, duration_seconds) ==
    LET r == create_trade(World(FALSE), initiator, None, initiator_nfts, counterparty_nfts, duration_seconds)
    IN  /\ Commit(r.w)
        /\ last' = Call("create_trade", r.res)
        /\ UNCHANGED stack

CreateTrade ==
    /\ next_trade <= MaxSwaps
    /\ \E initiator \in Sellers, initiator_nfts \in ItemLists, counterparty_nfts \in ItemLists, duration_seconds \in TradeDurations :
          CreateTradeCall(initiator, initiator_nfts, counterparty_nfts, duration_seconds)

AcceptTradeCall(trade_id, acceptor) ==
    LET r == accept_trade(World(FALSE), trade_id, acceptor)
    IN  /\ Commit(r.w)
        /\ last' = Call("accept_trade", r.res)
        /\ UNCHANGED stack

AcceptTrade == \E trade_id \in TradeIds, acceptor \in TradeParties : AcceptTradeCall(trade_id, acceptor)

ExecuteTradeCall(trade_id, executor) ==
    LET r == execute_trade(World(FALSE), trade_id, executor)
    IN  /\ Commit(r.w)
        /\ last' = Call("execute_trade", r.res)
        /\ UNCHANGED stack

ExecuteTrade == \E trade_id \in TradeIds, executor \in TradeParties : ExecuteTradeCall(trade_id, executor)

CreateBundleCall(seller, items, duration_seconds) ==
    LET r == create_bundle(World(FALSE), seller, items, Price, PayAsset, duration_seconds)
    IN  /\ Commit(r.w)
        /\ last' = Call("create_bundle", r.res)
        /\ UNCHANGED stack

CreateBundle ==
    /\ next_bundle <= MaxSwaps
    /\ \E seller \in Sellers, items \in ItemLists, duration_seconds \in TradeDurations :
          CreateBundleCall(seller, items, duration_seconds)

NextTrade ==
    \/ Tick
    \/ CreateTrade
    \/ AcceptTrade
    \/ ExecuteTrade
    \/ CreateBundle
    \/ CancelTransaction

SpecTrade == Init /\ [][NextTrade]_vars

(***************************************************************************)
(* The sale operations together with the swap engine's deposit and         *)
(* execute operations on the swaps the sales initialized                   *)
(***************************************************************************)
NextSaleSwap ==
    \/ Tick
    \/ SetRoyaltyInfo
    \/ CreateSale
    \/ DepositToEscrow({Price})
    \/ ExecuteSwap
    \/ ExecuteSale
    \/ CancelTransaction

SpecSaleSwap == InitSale /\ [][NextSaleSwap]_vars

(***************************************************************************)
(* Royalties of a sale of several NFTs                                     *)
(***************************************************************************)
ContractLists == {<<>>, <<NftContract>>, <<NftContract, NftContract>>}

TokenLists == {<<>>, <<7>>, <<7, 8>>}

ComplexPrices == {Price, 2 * BpsDenominator + 1}

CalculateComplexRoyaltiesCall(nft_contracts, token_ids, sale_price) ==
    LET r == calculate_complex_royalties(World(FALSE), nft_contracts, token_ids, sale_price)
    IN  /\ Commit([World(FALSE) EXCEPT !.ret = IF r.res = "Ok" THEN Some(r.distribution) ELSE None])
        /\ last' = Call("calculate_complex_royalties", r.res)
        /\ UNCHANGED stack

CalculateComplexRoyalties ==
    \E nft_contracts \in ContractLists, token_ids \in TokenLists, sale_price \in ComplexPrices :
        CalculateComplexRoyaltiesCall(nft_contracts, token_ids, sale_price)

NextComplex ==
    \/ SetRoyalty
    \/ UpdateRoyaltyPercentage
    \/ CalculateComplexRoyalties

SpecComplex == Init /\ [][NextComplex]_vars

(***************************************************************************)
(* Actions and specification of the NFT collection contract                *)
(***************************************************************************)
MaxSupply == 1

CollectionAdmin == "alice"

CollectionHolders == {"bob", "carol"}

CollectionSigners == {CollectionAdmin, "bob"}

CollectionTokens == 1..(MaxSupply + 1)

SupplyLimits == {None, Some(MaxSupply)}

CommitCollection(c) ==
    /\ collection' = c
    /\ ret' = None
    /\ UNCHANGED <<now, swaps, next_swap, royalty_configs, sales, next_sale, trades, next_trade, bundles, next_bundle, fees, admin_cfg, fee_config, nft_owner, balance, custody, inflight, stack>>

CollectionInitCall(admin, max_supply) ==
    LET r == init(collection, admin, CollectionConfig(max_supply, admin))
    IN  /\ CommitCollection(r.w)
        /\ last' = Call("collection_init", r.res)

CollectionInit == \E max_supply \in SupplyLimits : CollectionInitCall(CollectionAdmin, max_supply)

\* invoker is the address that invokes mint; the function takes no such
\* argument and asks for no authorisation
MintCall(invoker, to, token_id) ==
    LET r == mint(collection, to, token_id, "uri")
    IN  /\ CommitCollection(r.w)
        /\ last' = Call("mint", r.res)

Mint ==
    \E invoker \in Callers, to \in CollectionHolders, token_id \in CollectionTokens :
        MintCall(invoker, to, token_id)

TransferCall(from, to, token_id, signer) ==
    LET r == transfer(collection, from, to, token_id, signer)
    IN  /\ CommitCollection(r.w)
        /\ last' = Call("transfer", r.res)

Transfer ==
    \E from \in CollectionHolders, to \in CollectionHolders, token_id \in CollectionTokens, signer \in CollectionHolders :
        TransferCall(from, to, token_id, signer)

BurnCall(from, token_id, signer) ==
    LET r == burn(collection, from, token_id, signer)
    IN  /\ CommitCollection(r.w)
        /\ last' = Call("burn", r.res)

Burn ==
    \E from \in CollectionHolders, token_id \in CollectionTokens, signer \in CollectionHolders :
        BurnCall(from, token_id, signer)

SetPauseCall(paused, signer) ==
    LET r == set_pause(collection, paused, signer)
    IN  /\ CommitCollection(r.w)
        /\ last' = Call("set_pause", r.res)

SetPause == \E paused \in BOOLEAN, signer \in CollectionSigners : SetPauseCall(paused, signer)

SetMinterCall(minter, flag, signer) ==
    LET r == set_minter(collection, minter, flag, signer)
    IN  /\ CommitCollection(r.w)
        /\ last' = Call("set_minter", r.res)

SetMinter ==
    \E minter \in CollectionSigners, flag \in BOOLEAN, signer \in CollectionSigners :
        SetMinterCall(minter, flag, signer)

NextCollection ==
    \/ CollectionInit
    \/ Mint
    \/ Transfer
    \/ Burn
    \/ SetPause
    \/ SetMinter

SpecCollection == Init /\ [][NextCollection]_vars

(***************************************************************************)
(* Claims                                                                  *)
(***************************************************************************)
SwapStates == {"Pending", "SellerFunded", "BuyerFunded", "Ready", "Executed", "Failed"}

SpecTransitions ==
    {<<"Pending", "SellerFunded">>, <<"Pending", "BuyerFunded">>,
     <<"SellerFunded", "Ready">>, <<"BuyerFunded", "Ready">>,
     <<"Ready", "Executed">>} \cup {<<s, "Failed">> : s \in SwapStates}

\* C1: every change of a swap's state is Pending->SellerFunded,
\* Pending->BuyerFunded, SellerFunded->Ready, BuyerFunded->Ready,
\* Ready->Executed or any state->Failed.
C1_OnlySpecTransitions ==
    [][\A i \in DOMAIN swaps :
          swaps'[i].state # swaps[i].state
              => <<swaps[i].state, swaps'[i].state>> \in SpecTransitions]_vars

PaymentDue(swap) == swap.buyer_escrow[1].amount

\* C2: execute_swap succeeds only for a swap whose NFT leg and payment leg
\* are both in custody through deposit_to_escrow: when a swap becomes
\* Executed, the deposits of that swap cover the leg each party receives.
C2_NoReceiveWithoutPaying ==
    [][\A i \in DOMAIN swaps :
          (swaps[i].state # "Executed" /\ swaps'[i].state = "Executed")
              => (custody[i].nft >= 1 /\ custody[i].pay >= PaymentDue(swaps[i]))]_vars

CustodyCovered(c) == \A i \in DOMAIN c : c[i].nft >= 0 /\ c[i].pay >= 0

\* C3: for every swap and every leg, what the engine has transferred out of
\* custody for the leg never exceeds what was transferred into custody for
\* it: no call that returns Ok takes a leg's deposits minus its releases
\* below zero.
C3_NoDoubleSpend ==
    [][(CustodyCovered(custody) /\ last'.res = "Ok") => CustodyCovered(custody')]_vars

\* C4: once a swap's state is Executed or Failed, no later call changes it.
C4_TerminalStates ==
    [][\A i \in DOMAIN swaps :
          swaps[i].state \in {"Executed", "Failed"}
              => swaps'[i].state = swaps[i].state]_vars

C6_SaleDeliversToBuyer ==
    [][\A id \in DOMAIN sales :
          (sales[id].state # "Executed" /\ sales'[id].state = "Executed")
              => /\ nft_owner'[sales'[id].token_id] = sales'[id].buyer[1]
                 /\ balance'[sales'[id].seller] >= balance[sales'[id].seller]]_vars

StateOfLegs(seller_leg, buyer_leg) ==
    IF seller_leg /\ buyer_leg THEN "Ready"
    ELSE IF seller_leg THEN "SellerFunded"
    ELSE IF buyer_leg THEN "BuyerFunded"
    ELSE "Pending"

\* C7: after any sequence of deposits the state of a swap is decided by which
\* legs have been deposited: seller only SellerFunded, buyer only BuyerFunded,
\* both Ready, neither Pending.
C7_StateFromDepositedLegs ==
    \A i \in DOMAIN swaps :
        swaps[i].state = StateOfLegs(custody[i].nft > 0, custody[i].pay > 0)

FoundNotReady(tx) ==
    /\ get_swap_by_transaction(World(FALSE), tx).res = "Ok"
    /\ get_swap_by_transaction(World(FALSE), tx).swap.state # "Ready"

\* C8: execute_swap on a swap that is not Ready returns InvalidState, moves
\* no asset and leaves every swap record as it was.
C8_NotReadyRejected ==
    [][\A tx \in TxIds, executor \in Callers, refuse \in BOOLEAN :
          (FoundNotReady(tx) /\ ExecuteSwapCall(tx, executor, refuse))
              => /\ last'.res = "InvalidState"
                 /\ UNCHANGED <<swaps, nft_owner, balance, custody>>]_vars

C8_Witness ==
    /\ last = Call("execute_swap", "InvalidState")
    /\ \E i \in DOMAIN swaps : swaps[i].state \in {"SellerFunded", "BuyerFunded"}

\* C9: at most one AtomicSwap exists per transaction id.
C9_OneSwapPerTransaction ==
    \A i, j \in DOMAIN swaps :
        swaps[i].transaction_id = swaps[j].transaction_id => i = j

\* C10: while (caller, operation) is in flight, a nested execute_swap or
\* execute_sale by the same caller returns Reentrant and changes no record,
\* no ledger and no marker.
C10_NestedCallRejected ==
    [][\A tx \in TxIds, caller \in Callers :
          /\ (GuardHeld(World(FALSE), caller, "execute_swap") /\ ExecuteSwapEnterCall(tx, caller))
                => /\ last'.res = "Reentrant"
                   /\ UNCHANGED <<swaps, sales, fees, nft_owner, balance, custody, inflight, stack>>
          /\ \A payment_amount \in {Price, Price + 1} :
                (GuardHeld(World(FALSE), caller, "execute_sale") /\ ExecuteSaleEnterCall(tx, caller, payment_amount))
                    => /\ last'.res = "Reentrant"
                       /\ UNCHANGED <<swaps, sales, fees, nft_owner, balance, custody, inflight, stack>>]_vars

C10_Witness ==
    /\ stack # <<>>
    /\ last.res = "Reentrant"
    /\ GuardKey(Top.caller, Top.op) \in inflight

\* C11: the marker of a guarded call is cleared on every exit path: whenever
\* no call is in progress no marker is set, and a call made at top level is
\* never turned away as Reentrant.
C11_MarkerCleared ==
    [][/\ stack' = <<>> => inflight' = {}
       /\ stack = <<>> => last'.res # "Reentrant"]_vars

C11_Witness ==
    /\ stack = <<>>
    /\ inflight = {}
    /\ last.op \in {"execute_sale", "cancel_transaction"}
    /\ last.res \in {"NotFound", "InvalidState", "InvalidAmount", "Unauthorized", "TransferFailed"}

FoundSwap(tx) == get_swap_by_transaction(World(FALSE), tx).swap

IsParty(swap, who) == HoldsIn(swap.seller_escrow, who) \/ HoldsIn(swap.buyer_escrow, who)

\* C15: cancel_swap by an address that holds no holding of the swap returns
\* Unauthorized and changes neither the swap nor the ledgers; cancel_swap by a
\* party (the transfer capability not refusing) returns Ok and leaves the swap
\* Failed with nothing of it remaining in custody.
C15_CancelSwap ==
    [][\A tx \in TxIds, canceller \in Callers, refuse \in BOOLEAN :
          (get_swap_by_transaction(World(FALSE), tx).res = "Ok" /\ CancelSwapCall(tx, canceller, refuse))
              => IF IsParty(FoundSwap(tx), canceller)
                 THEN ~refuse =>
                        /\ last'.res = "Ok"
                        /\ swaps'[FoundSwap(tx).swap_id].state = "Failed"
                        /\ custody'[FoundSwap(tx).swap_id] = NoCustody
                 ELSE /\ last'.res = "Unauthorized"
                      /\ UNCHANGED <<swaps, nft_owner, balance, custody>>]_vars

\* C16: after an emergency_withdraw that returns Ok, the state of the swap
\* is Failed.
C16_EmergencyWithdrawFails ==
    [][\A tx \in TxIds, admin \in Callers, refuse \in BOOLEAN :
          (/\ get_swap_by_transaction(World(FALSE), tx).res = "Ok"
           /\ EmergencyWithdrawCall(tx, admin, refuse)
           /\ last'.res = "Ok")
              => swaps'[FoundSwap(tx).swap_id].state = "Failed"]_vars

DepositAmounts == TokenIds \cup 0..Price

\* C17: a deposit_to_escrow that fails changes no swap record and moves no
\* asset; a depositor that matches no holding of the asset on either side of
\* the swap is answered Unauthorized.
C17_FailedDepositChangesNothing ==
    [][\A tx \in TxIds, depositor \in Callers, asset \in Assets, amount \in DepositAmounts, is_nft \in BOOLEAN, refuse \in BOOLEAN :
          DepositCall(tx, depositor, asset, amount, is_nft, refuse)
              => /\ last'.res # "Ok" => UNCHANGED <<swaps, nft_owner, balance, custody>>
                 /\ (/\ get_swap_by_transaction(World(FALSE), tx).res = "Ok"
                     /\ ~IsDepositOf(FoundSwap(tx).seller_escrow, depositor, asset)
                     /\ ~IsDepositOf(FoundSwap(tx).buyer_escrow, depositor, asset))
                        => last'.res = "Unauthorized"]_vars

C17_Witness ==
    /\ last = Call("deposit_to_escrow", "TransferFailed")
    /\ \E i \in DOMAIN swaps : swaps[i].state = "Pending"

\* C18: after a create_sale that succeeds, get_sale on the returned id gives a
\* Pending sale with no buyer, created now and expiring duration_seconds
\* later, and a Pending swap is stored for that transaction id.
C18_CreatedSaleIsPending ==
    [][\A seller \in SaleSellers, token_id \in TokenIds, duration_seconds \in Durations :
          (CreateSaleCall(seller, token_id, duration_seconds) /\ last'.res = "Ok")
              => /\ get_sale([sales |-> sales'], next_sale).res = "Ok"
                 /\ get_sale([sales |-> sales'], next_sale).sale.state = "Pending"
                 /\ get_sale([sales |-> sales'], next_sale).sale.buyer = None
                 /\ get_sale([sales |-> sales'], next_sale).sale.created_at = now
                 /\ get_sale([sales |-> sales'], next_sale).sale.expires_at = now + duration_seconds
                 /\ \E i \in DOMAIN swaps' : /\ swaps'[i].transaction_id = next_sale
                                             /\ swaps'[i].state = "Pending"]_vars

C18_Witness ==
    /\ last = Call("create_sale", "Ok")
    /\ \E t \in DOMAIN sales : sales[t].state = "Pending" /\ sales[t].expires_at > sales[t].created_at

\* C19: an execute_sale made with the exact price on a Pending sale that has
\* not expired, with every transfer succeeding, returns Ok and leaves the
\* sale Executed.
C19_ExecuteSaleSucceeds ==
    [][\A tx \in TxIds, buyer \in Callers :
          (/\ get_sale(World(FALSE), tx).res = "Ok"
           /\ get_sale(World(FALSE), tx).sale.state = "Pending"
           /\ ~is_expired(get_sale(World(FALSE), tx).sale.expires_at, World(FALSE))
           /\ ExecuteSaleCall(tx, buyer, get_sale(World(FALSE), tx).sale.price, FALSE))
              => /\ last'.res = "Ok"
                 /\ sales'[tx].state = "Executed"]_vars

\* no sale is ever Executed by the sale operations of the contract alone
C19_NeverExecuted == \A t \in DOMAIN sales : sales[t].state # "Executed"

FoundSale(tx) == get_sale(World(FALSE), tx).sale

\* C20: execute_sale answers InvalidState for a sale that is not Pending,
\* Expired for a Pending sale past its expiry, and InvalidAmount for a
\* Pending, unexpired sale when the payment differs from the price; in each
\* case no sale, swap, fee or royalty record changes and no asset moves.
C20_PreChecks ==
    [][\A tx \in TxIds, buyer \in Callers, payment_amount \in Payments, refuse \in BOOLEAN :
          (get_sale(World(FALSE), tx).res = "Ok" /\ ExecuteSaleCall(tx, buyer, payment_amount, refuse))
              => /\ FoundSale(tx).state # "Pending"
                     => /\ last'.res = "InvalidState"
                        /\ UNCHANGED <<sales, swaps, fees, royalty_configs, nft_owner, balance, custody>>
                 /\ (FoundSale(tx).state = "Pending" /\ now > FoundSale(tx).expires_at)
                     => /\ last'.res = "Expired"
                        /\ UNCHANGED <<sales, swaps, fees, royalty_configs, nft_owner, balance, custody>>
                 /\ (/\ FoundSale(tx).state = "Pending"
                     /\ now <= FoundSale(tx).expires_at
                     /\ payment_amount # FoundSale(tx).price)
                     => /\ last'.res = "InvalidAmount"
                        /\ UNCHANGED <<sales, swaps, fees, royalty_configs, nft_owner, balance, custody>>]_vars

C20_Witness ==
    /\ last = Call("execute_sale", "Expired")
    /\ \E t \in DOMAIN sales : sales[t].state = "Pending" /\ now > sales[t].expires_at

\* C12: a call of an administrative operation made by the caller of the same
\* operation while that one is still in progress is answered Reentrant.
C12_AdminOpsGuarded ==
    [][\A tx \in TxIds, admin \in Admins :
          (/\ stack # <<>>
           /\ Top.op = "settlement_emergency_withdraw"
           /\ Top.caller = admin
           /\ SettlementEmergencyWithdrawEnterCall(tx, admin))
              => last'.res = "Reentrant"]_vars

\* C13: once the admin configuration is stored, an initialize that names
\* another address than the stored admin does not change it.
C13_AdminKeptOnReinitialize ==
    [][\A admin \in Admins :
          (/\ admin_cfg # None
           /\ admin_cfg[1].admin # admin
           /\ InitializeCall(admin))
              => admin_cfg' = admin_cfg]_vars

NotAdmin(admin) == admin_cfg = None \/ admin_cfg[1].admin # admin

AdminProtected == <<swaps, sales, fees, admin_cfg, fee_config, royalty_configs, nft_owner, balance, custody>>

\* C14: emergency_withdraw, update_fee_config and withdraw_platform_fees of
\* the settlement contract, called while no admin configuration is stored or
\* with another address than the stored admin, answer Unauthorized and
\* change no record, configuration or asset.
C14_AdminOpsFailClosed ==
    [][/\ \A tx \in TxIds, admin \in Admins, refuse \in BOOLEAN :
             (NotAdmin(admin) /\ SettlementEmergencyWithdrawCall(tx, admin, refuse))
                 => (last'.res = "Unauthorized" /\ UNCHANGED AdminProtected)
       /\ \A platform_fee_bps \in FeeBpsInputs, admin \in Admins :
             (NotAdmin(admin) /\ UpdateFeeConfigCall(platform_fee_bps, admin))
                 => (last'.res = "Unauthorized" /\ UNCHANGED AdminProtected)
       /\ \A recipient \in Admins, admin \in Admins :
             (NotAdmin(admin) /\ WithdrawPlatformFeesCall(recipient, admin))
                 => (last'.res = "Unauthorized" /\ UNCHANGED AdminProtected)]_vars

C14_Witness ==
    /\ last = Call("settlement_emergency_withdraw", "Unauthorized")
    /\ admin_cfg # None
    /\ fees > 0
    /\ \E i \in DOMAIN custody : custody[i].nft > 0

SaleRecords == <<sales, swaps, fees, royalty_configs, nft_owner, balance, custody>>

\* C21: cancel_transaction of type "sale" on a stored sale answers
\* Unauthorized to a canceller who is not its seller, InvalidState to its
\* seller when it is not Pending, and for its seller on a Pending sale
\* answers Ok and stores it Cancelled; in the error cases nothing changes.
C21_CancelSale ==
    [][\A tx \in TxIds, canceller \in Callers :
          (get_sale(World(FALSE), tx).res = "Ok" /\ CancelTransactionCall(tx, "sale", canceller))
              => /\ FoundSale(tx).seller # canceller
                     => (last'.res = "Unauthorized" /\ UNCHANGED SaleRecords)
                 /\ (FoundSale(tx).seller = canceller /\ FoundSale(tx).state # "Pending")
                     => (last'.res = "InvalidState" /\ UNCHANGED SaleRecords)
                 /\ (FoundSale(tx).seller = canceller /\ FoundSale(tx).state = "Pending")
                     => /\ last'.res = "Ok"
                        /\ sales' = [sales EXCEPT ![tx].state = "Cancelled"]]_vars

C21_Witness ==
    /\ last = Call("cancel_transaction", "InvalidState")
    /\ \E t \in DOMAIN sales : sales[t].state \in {"Funded", "Executed", "Cancelled"}

TerminalSaleStates == {"Executed", "Cancelled"}

\* C22: a stored sale stays stored, and once its state is Executed or
\* Cancelled no step changes that state.
C22_TerminalSalesFinal ==
    [][\A t \in DOMAIN sales :
          /\ get_sale([sales |-> sales'], t).res = "Ok"
          /\ sales[t].state \in TerminalSaleStates => sales'[t].state = sales[t].state]_vars

C22_Witness ==
    /\ last.op \in {"execute_sale", "cancel_transaction"}
    /\ last.res = "InvalidState"
    /\ \E t \in DOMAIN sales : sales[t].state \in TerminalSaleStates

\* C23: no stored royalty_percentage exceeds 5000; set_royalty_info answers
\* InvalidRoyaltyPercentage to 5001 and above and Ok to 5000, and so does
\* update_royalty_percentage called by the recorded creator; a rejected
\* percentage leaves the records unchanged.
C23_RoyaltyCeiling ==
    [][/\ \A k \in DOMAIN royalty_configs' : royalty_configs'[k].royalty_percentage <= 5000
       /\ last'.op = "set_royalty_info" =>
          \A token_id \in RoyaltyTokens, creator \in RoyaltyCreators, pct \in RoyaltyRates, setter \in Callers :
              SetRoyaltyInfoCall(token_id, creator, pct, setter)
                  => /\ pct >= 5001 => (last'.res = "InvalidRoyaltyPercentage" /\ UNCHANGED royalty_configs)
                     /\ pct = 5000 => last'.res = "Ok"
       /\ last'.op = "update_royalty_percentage" =>
          \A token_id \in RoyaltyTokens, pct \in RoyaltyRates, updater \in Callers :
              (/\ get_royalty_info(World(FALSE), NftContract, token_id).res = "Ok"
               /\ get_royalty_info(World(FALSE), NftContract, token_id).info.creator = updater
               /\ UpdateRoyaltyPercentageCall(token_id, pct, updater))
                  => /\ pct >= 5001 => (last'.res = "InvalidRoyaltyPercentage" /\ UNCHANGED royalty_configs)
                     /\ pct = 5000 => last'.res = "Ok"]_vars

C23_Witness ==
    /\ last = Call("update_royalty_percentage", "InvalidRoyaltyPercentage")
    /\ \E k \in DOMAIN royalty_configs : royalty_configs[k].royalty_percentage = 5000

StoredRoyalty(token_id) == get_royalty_info(World(FALSE), NftContract, token_id)

\* C24: once a royalty record exists for an NFT, a set_royalty_info or
\* update_royalty_percentage for it made by another address than the
\* recorded creator leaves the records unchanged, and the update is
\* answered Unauthorized.
C24_CreatorOnly ==
    [][/\ \A token_id \in RoyaltyTokens, creator \in RoyaltyCreators, pct \in RoyaltyRates, setter \in Callers :
              (/\ StoredRoyalty(token_id).res = "Ok"
               /\ StoredRoyalty(token_id).info.creator # setter
               /\ SetRoyaltyInfoCall(token_id, creator, pct, setter))
                  => UNCHANGED royalty_configs
       /\ \A token_id \in RoyaltyTokens, pct \in RoyaltyRates, updater \in Callers :
              (/\ StoredRoyalty(token_id).res = "Ok"
               /\ StoredRoyalty(token_id).info.creator # updater
               /\ UpdateRoyaltyPercentageCall(token_id, pct, updater))
                  => (last'.res = "Unauthorized" /\ UNCHANGED royalty_configs)]_vars

\* the update half of C24 on its own
C24_UpdateByCreatorOnly ==
    [][\A token_id \in RoyaltyTokens, pct \in RoyaltyRates, updater \in Callers :
          (/\ StoredRoyalty(token_id).res = "Ok"
           /\ StoredRoyalty(token_id).info.creator # updater
           /\ UpdateRoyaltyPercentageCall(token_id, pct, updater))
              => (last'.res = "Unauthorized" /\ UNCHANGED royalty_configs)]_vars

RoyaltyAfter(token_id) == get_royalty_info([royalty_configs |-> royalty_configs'], NftContract, token_id)

\* C25: a set_royalty_info or update_royalty_percentage for one token leaves
\* what get_royalty_info returns for every other token unchanged, and
\* calculate_royalties for a token never set is answered NotFound.
C25_OneRecordPerToken ==
    [][/\ \A token_id \in RoyaltyTokens, creator \in RoyaltyCreators, pct \in RoyaltyRates, setter \in Callers :
              SetRoyaltyInfoCall(token_id, creator, pct, setter)
                  => \A other \in RoyaltyTokens \ {token_id} : RoyaltyAfter(other) = StoredRoyalty(other)
       /\ \A token_id \in RoyaltyTokens, pct \in RoyaltyRates, updater \in Callers :
              UpdateRoyaltyPercentageCall(token_id, pct, updater)
                  => \A other \in RoyaltyTokens \ {token_id} : RoyaltyAfter(other) = StoredRoyalty(other)
       /\ \A token_id \in RoyaltyTokens, sale_price \in SalePrices :
              (/\ \A k \in DOMAIN royalty_configs : royalty_configs[k].token_id # token_id
               /\ CalculateRoyaltiesCall(token_id, sale_price))
                  => last'.res = "NotFound"]_vars

\* C26: the distribution a successful calculate_royalties returns passes
\* validate_royalty_distribution: its amounts add up to its total_amount.
C26_CalculatedDistributionValidates ==
    (last = Call("calculate_royalties", "Ok"))
        => validate_royalty_distribution(ret[1]).res = "Ok"

RECURSIVE SumOver(_, _)
SumOver(amounts, S) ==
    IF S = {} THEN 0
    ELSE LET a == CHOOSE x \in S : TRUE
         IN  amounts[a] + SumOver(amounts, S \ {a})

\* C27: validate_royalty_distribution answers Ok when the amounts of the
\* distribution add up to its total_amount and InvalidAmount when they do not.
C27_ValidateIffSumMatches ==
    [][last'.op = "validate_royalty_distribution"
          => \A distribution \in Distributions :
                ValidateRoyaltyDistributionCall(distribution)
                    => last'.res = IF SumOver(distribution.amounts, DOMAIN distribution.amounts)
                                        = distribution.total_amount
                                   THEN "Ok" ELSE "InvalidAmount"]_vars

C27_Witness ==
    /\ last = Call("validate_royalty_distribution", "InvalidAmount")
    /\ \E a \in RoyaltyRecipients : balance[a] > 0

Credited(r) == balance'[r] - balance[r]

LegFailed(distribution, r, refuse) ==
    refuse \/ (distribution.amounts[r] > 0 /\ Credited(r) = 0)

\* C28: distribute_royalties returns a result whatever the transfers do; each
\* recipient receives its whole amount or nothing, out of the contract's
\* balance; distribution_success is false exactly when a transfer failed;
\* and no recipient the contract could still pay at the end is left unpaid.
C28_DistributionContinues ==
    [][last'.op = "distribute_royalties"
          => \A distribution \in Distributions, refuse \in BOOLEAN :
                DistributeRoyaltiesCall(distribution, refuse)
                    => /\ last'.res = "Ok"
                       /\ \A r \in DOMAIN distribution.amounts :
                              Credited(r) \in {0, distribution.amounts[r]}
                       /\ \A r \in RoyaltyRecipients \ DOMAIN distribution.amounts : Credited(r) = 0
                       /\ balance[Escrow] - balance'[Escrow]
                              = SumOver([r \in DOMAIN distribution.amounts |-> Credited(r)],
                                        DOMAIN distribution.amounts)
                       /\ ret'[1].distribution_success
                              = (\A r \in DOMAIN distribution.amounts : ~LegFailed(distribution, r, refuse))
                       /\ ~refuse => \A r \in DOMAIN distribution.amounts :
                              LegFailed(distribution, r, refuse)
                                  => distribution.amounts[r] > balance'[Escrow]]_vars

C28_Witness ==
    /\ last = Call("distribute_royalties", "Ok")
    /\ ~ret[1].distribution_success
    /\ balance["carol"] > 0
    /\ balance["alice"] = 0

\* C29: a successful calculate_royalties maps the recorded creator to
\* sale_price * royalty_percentage / 10000, rounded down, and reports 9500
\* and 500 as seller and platform percentages: 500 for 500 bps of a price of
\* 10000.  distribute_royalties reports 9500 and 500 as seller and platform
\* amounts of such a distribution of 10000.
C29_RoyaltyAmounts ==
    [][/\ last'.op = "calculate_royalties" =>
          \A token_id \in RoyaltyTokens, sale_price \in SalePrices :
              (CalculateRoyaltiesCall(token_id, sale_price) /\ last'.res = "Ok")
                  => /\ DOMAIN ret'[1].amounts = {StoredRoyalty(token_id).info.creator}
                     /\ \E q \in 0..sale_price :
                           /\ ret'[1].amounts[StoredRoyalty(token_id).info.creator] = q
                           /\ 10000 * q <= sale_price * StoredRoyalty(token_id).info.royalty_percentage
                           /\ sale_price * StoredRoyalty(token_id).info.royalty_percentage < 10000 * (q + 1)
                     /\ ret'[1].seller_percentage = 9500
                     /\ ret'[1].platform_percentage = 500
                     /\ (StoredRoyalty(token_id).info.royalty_percentage = 500 /\ sale_price = 10000)
                            => ret'[1].amounts[StoredRoyalty(token_id).info.creator] = 500
       /\ last'.op = "distribute_royalties" =>
          \A royalty_distribution \in Calculated, refuse \in BOOLEAN :
              (DistributeRoyaltiesCall(royalty_distribution, refuse) /\ royalty_distribution.total_amount = 10000)
                  => /\ ret'[1].seller_amount = 9500
                     /\ ret'[1].platform_amount = 500
                     /\ ret'[1].creator_amount = royalty_distribution.amounts[royalty_distribution.creator_address]]_vars

C29_Witness ==
    /\ last = Call("distribute_royalties", "Ok")
    /\ ret[1].total_amount = 10000
    /\ ret[1].creator_amount = 500
    /\ ret[1].seller_amount = 9500

RoyaltyOn(token_id, price) ==
    calculate_royalties(World(FALSE), NftContract, token_id, price).distribution.amounts[StoredRoyalty(token_id).info.creator]

\* C30: the price calculate_minimum_price returns for a net amount, less the
\* royalty calculate_royalties takes on that price, is within one unit of
\* the net amount.
C30_MinimumPriceRoundTrip ==
    [][last'.op = "calculate_minimum_price" =>
          \A token_id \in RoyaltyTokens, desired_net_amount \in NetAmounts :
              (CalculateMinimumPriceCall(token_id, desired_net_amount) /\ last'.res = "Ok")
                  => (ret'[1] - RoyaltyOn(token_id, ret'[1])) - desired_net_amount \in -1..1]_vars

C30_Witness ==
    /\ last = Call("calculate_minimum_price", "Ok")
    /\ ret[1] = 2 * MaxNet
    /\ \E k \in DOMAIN royalty_configs : royalty_configs[k].royalty_percentage = MaxRoyaltyBps

HoldingsStamped(before, after, depositor, asset, timestamp) ==
    /\ DOMAIN after = DOMAIN before
    /\ \A j \in DOMAIN before :
          after[j] = IF before[j].holder = depositor /\ before[j].asset = asset
                     THEN [before[j] EXCEPT !.deposited_at = timestamp]
                     ELSE before[j]

SwapHoldingsKept(before, after, depositor, asset, timestamp) ==
    /\ Len(after.seller_escrow) = 1
    /\ Len(after.buyer_escrow) = 1
    /\ HoldingsStamped(before.seller_escrow, after.seller_escrow, depositor, asset, timestamp)
    /\ HoldingsStamped(before.buyer_escrow, after.buyer_escrow, depositor, asset, timestamp)

\* C31: a deposit_to_escrow that succeeds, and a second one for the same
\* depositor and asset after it, leave every swap with one seller holding and
\* one buyer holding; the holdings are as before but for the deposited_at of
\* the holding of that depositor and asset, which is the ledger time.
C31_DepositKeepsHoldings ==
    [][/\ last'.op = "deposit_to_escrow" /\ last'.res = "Ok"
          => \A tx \in TxIds, depositor \in Callers, asset \in Assets, amount \in DepositAmounts, is_nft \in BOOLEAN :
                DepositCall(tx, depositor, asset, amount, is_nft, FALSE)
                    => /\ DOMAIN swaps' = DOMAIN swaps
                       /\ \A i \in DOMAIN swaps :
                             IF i = FoundSwap(tx).swap_id
                             THEN SwapHoldingsKept(swaps[i], swaps'[i], depositor, asset, now)
                             ELSE swaps'[i] = swaps[i]
       /\ last'.op = "deposit_to_escrow_twice" /\ last'.res = "Ok"
          => \A tx \in TxIds, depositor \in Callers, asset \in Assets, first_amount \in DepositAmounts, second_amount \in DepositAmounts, is_nft \in BOOLEAN :
                DepositTwiceCall(tx, depositor, asset, first_amount, second_amount, is_nft)
                    => /\ DOMAIN swaps' = DOMAIN swaps
                       /\ \A i \in DOMAIN swaps :
                             IF i = FoundSwap(tx).swap_id
                             THEN SwapHoldingsKept(swaps[i], swaps'[i], depositor, asset, now)
                             ELSE swaps'[i] = swaps[i]]_vars

C31_Witness ==
    /\ last = Call("deposit_to_escrow_twice", "Ok")
    /\ \E i \in DOMAIN swaps :
          /\ swaps[i].buyer_escrow[1].deposited_at = MaxTime
          /\ swaps[i].created_at = 0
          /\ custody[i].pay = Price

\* C32: create_trade with no initiator NFT and create_bundle with no item
\* answer InvalidAmount, store no trade or bundle record and leave the id
\* counters where they were.
C32_EmptyCollectionsRejected ==
    [][/\ last'.op = "create_trade"
          => \A initiator \in Sellers, counterparty_nfts \in ItemLists, duration_seconds \in TradeDurations :
                CreateTradeCall(initiator, <<>>, counterparty_nfts, duration_seconds)
                    => /\ last'.res = "InvalidAmount"
                       /\ UNCHANGED <<trades, next_trade, bundles, next_bundle>>
       /\ last'.op = "create_bundle"
          => \A seller \in Sellers, duration_seconds \in TradeDurations :
                CreateBundleCall(seller, <<>>, duration_seconds)
                    => /\ last'.res = "InvalidAmount"
                       /\ UNCHANGED <<trades, next_trade, bundles, next_bundle>>]_vars

C32_Witness ==
    /\ last = Call("create_bundle", "InvalidAmount")
    /\ next_bundle = 1
    /\ bundles = <<>>
    /\ next_trade = 2
    /\ DOMAIN trades = {1}

TradeTransitions == {<<"Pending", "Funded">>, <<"Funded", "Executed">>}

FoundTrade(trade_id) == TradeStoreGet(World(FALSE), trade_id)

\* C38: a trade record is never removed and its state changes only from
\* Pending to Funded, in an accept_trade that succeeds, and from Funded to
\* Executed, in an execute_trade that succeeds; accept_trade answers
\* InvalidState for a trade that is not Pending and Expired for a Pending
\* trade past its expiry, execute_trade answers InvalidState for a trade that
\* is not Funded, and a call that fails leaves the trade records unchanged.
C38_TradeStateMachine ==
    [][/\ \A id \in DOMAIN trades :
             /\ id \in DOMAIN trades'
             /\ trades'[id].state # trades[id].state
                   => /\ <<trades[id].state, trades'[id].state>> \in TradeTransitions
                      /\ last' = Call(IF trades[id].state = "Pending" THEN "accept_trade" ELSE "execute_trade", "Ok")
             /\ trades[id].state = "Executed" => trades'[id] = trades[id]
       /\ last'.op = "accept_trade"
          => \A trade_id \in TradeIds, acceptor \in TradeParties :
                AcceptTradeCall(trade_id, acceptor)
                    => /\ last'.res # "Ok" => UNCHANGED trades
                       /\ FoundTrade(trade_id).res = "Ok"
                             => LET trade == FoundTrade(trade_id).trade
                                IN  last'.res = IF trade.state # "Pending" THEN "InvalidState"
                                                ELSE IF now > trade.expires_at THEN "Expired"
                                                ELSE "Ok"
       /\ last'.op = "execute_trade"
          => \A trade_id \in TradeIds, executor \in TradeParties :
                ExecuteTradeCall(trade_id, executor)
                    => /\ last'.res # "Ok" => UNCHANGED trades
                       /\ FoundTrade(trade_id).res = "Ok"
                             => last'.res = IF FoundTrade(trade_id).trade.state # "Funded"
                                            THEN "InvalidState" ELSE "Ok"]_vars

C38_Witness ==
    /\ last = Call("accept_trade", "InvalidState")
    /\ \E id \in DOMAIN trades : trades[id].state = "Executed" /\ now > trades[id].expires_at

C37_CancelledSaleSwapNeverExecutes ==
    [][\A t \in DOMAIN sales :
          sales[t].state = "Cancelled"
              => \A i \in DOMAIN swaps :
                    (swaps[i].transaction_id = t /\ swaps[i].state # "Executed")
                        => swaps'[i].state # "Executed"]_vars

C33_MintThenTransfer ==
    [][/\ last' = Call("mint", "Ok")
          => \A invoker \in Callers, to \in CollectionHolders, token_id \in CollectionTokens :
                (MintCall(invoker, to, token_id) /\ owner_of(collection, token_id) = None)
                    => /\ owner_of(collection', token_id) = Some(to)
                       /\ balance_of(collection', to, token_id) = 1
                       /\ total_supply(collection') = total_supply(collection) + 1
       /\ last' = Call("transfer", "Ok")
          => \A from \in CollectionHolders, to \in CollectionHolders, token_id \in CollectionTokens :
                TransferCall(from, to, token_id, from)
                    => /\ owner_of(collection, token_id) = Some(from)
                       /\ owner_of(collection', token_id) = Some(to)
                       /\ from # to => balance_of(collection', from, token_id) = 0
                       /\ balance_of(collection', to, token_id) = 1
                       /\ total_supply(collection') = total_supply(collection)]_vars

C33_Witness ==
    /\ last = Call("transfer", "Ok")
    /\ total_supply(collection) = 1
    /\ \E token_id \in CollectionTokens :
          /\ owner_of(collection, token_id) = Some("carol")
          /\ <<"bob", token_id>> \in DOMAIN collection.balance
          /\ balance_of(collection, "bob", token_id) = 0
          /\ balance_of(collection, "carol", token_id) = 1

\* C34: in an initialized collection a mint invoked by an address that is
\* neither the admin nor marked as minter answers NotMinter and changes
\* nothing.
C34_OnlyMintersMint ==
    [][(last'.op = "mint" /\ collection.admin # None)
          => \A invoker \in Callers, to \in CollectionHolders, token_id \in CollectionTokens :
                (/\ MintCall(invoker, to, token_id)
                 /\ invoker # collection.admin[1]
                 /\ ~is_minter(collection, invoker))
                    => /\ last'.res = "NotMinter"
                       /\ UNCHANGED collection]_vars

OwnedTokens(c) == DOMAIN c.owner

\* C39: total_supply is the number of token ids that have an owner and, when
\* the collection has a supply limit, never exceeds it; a mint at the limit
\* answers SupplyLimitExceeded, a mint of a token id that exists answers
\* TokenAlreadyExists, and neither changes anything.
C39_SupplyCountsOwnedTokens ==
    /\ [](/\ total_supply(collection) = Cardinality(OwnedTokens(collection))
          /\ DOMAIN collection.token_metadata = OwnedTokens(collection)
          /\ (collection.config # None /\ collection.config[1].max_supply # None)
                => total_supply(collection) <= collection.config[1].max_supply[1])
    /\ [][(last'.op = "mint" /\ collection.admin # None /\ is_minter(collection, collection.admin[1]))
             => \A invoker \in Callers, to \in CollectionHolders, token_id \in CollectionTokens :
                   MintCall(invoker, to, token_id)
                       => /\ token_id \in OwnedTokens(collection)
                             => (last'.res = "TokenAlreadyExists" /\ UNCHANGED collection)
                          /\ (/\ token_id \notin OwnedTokens(collection)
                              /\ collection.config[1].max_supply # None
                              /\ total_supply(collection) >= collection.config[1].max_supply[1])
                                => (last'.res = "SupplyLimitExceeded" /\ UNCHANGED collection)]_vars

C39_Witness ==
    /\ last = Call("mint", "SupplyLimitExceeded")
    /\ total_supply(collection) = MaxSupply
    /\ Cardinality(OwnedTokens(collection)) = MaxSupply
    /\ \E a \in CollectionHolders, token_id \in CollectionTokens :
          /\ <<a, token_id>> \in DOMAIN collection.balance
          /\ token_id \notin OwnedTokens(collection)

\* C40: for every token id and address the balance is 1 when the address owns
\* the token and 0 otherwise, and no balance was ever taken below 0; a
\* transfer or burn of a token id without an owner answers NotFound, one by
\* an address that is not the owner NotAuthorized, a transfer while the
\* contract is paused ContractPaused, and none of them changes anything.
C40_BalanceFollowsOwner ==
    /\ [](/\ \A a \in Callers, token_id \in CollectionTokens :
                balance_of(collection, a, token_id)
                    = IF owner_of(collection, token_id) = Some(a) THEN 1 ELSE 0
          /\ \A k \in DOMAIN collection.balance : collection.balance[k] # Underflowed
          /\ collection.total_supply # Some(Underflowed))
    /\ [][/\ last'.op = "transfer"
             => \A from \in CollectionHolders, to \in CollectionHolders, token_id \in CollectionTokens :
                   TransferCall(from, to, token_id, from)
                       => /\ UnwrapOr(collection.is_paused, FALSE)
                             => (last'.res = "ContractPaused" /\ UNCHANGED collection)
                          /\ (~UnwrapOr(collection.is_paused, FALSE) /\ owner_of(collection, token_id) = None)
                                => (last'.res = "NotFound" /\ UNCHANGED collection)
                          /\ (~UnwrapOr(collection.is_paused, FALSE) /\ owner_of(collection, token_id) \notin {None, Some(from)})
                                => (last'.res = "NotAuthorized" /\ UNCHANGED collection)
          /\ last'.op = "burn"
             => \A from \in CollectionHolders, token_id \in CollectionTokens :
                   BurnCall(from, token_id, from)
                       => /\ owner_of(collection, token_id) = None
                             => (last'.res = "NotFound" /\ UNCHANGED collection)
                          /\ owner_of(collection, token_id) \notin {None, Some(from)}
                                => (last'.res = "NotAuthorized" /\ UNCHANGED collection)]_vars

\* a token that went from carol to bob: carol's balance entry is back at 0
C40_Witness ==
    /\ last = Call("transfer", "Ok")
    /\ \E token_id \in CollectionTokens :
          /\ owner_of(collection, token_id) = Some("bob")
          /\ collection.balance[<<"bob", token_id>>] = 1
          /\ <<"carol", token_id>> \in DOMAIN collection.balance
          /\ collection.balance[<<"carol", token_id>>] = 0
          /\ total_supply(collection) = 1

====
